---- MODULE Spec2Model ----
(***************************************************************************)
(* Lexicon-based Spanish sentiment scorer of model_analyzer.py:            *)
(* analyze_text, analyze_text_fallback_detailed, calculate_intensity,     *)
(* get_emotion_from_sentiment and generate_analysis_explanation.          *)
(*                                                                         *)
(* Representation.  A Python str is a sequence of one-character strings.   *)
(* The lone surrogate U+D800 (a str can hold one, e.g. from json.loads)    *)
(* is the character "U+D800".  Floats are exact rationals:                 *)
(*   - positive_count / negative_count in quarters  (1 -> 4, 1.5 -> 6,     *)
(*     -0.5 -> -2, 1.5 * -0.5 -> -3);                                      *)
(*   - confidence and intensity in thousandths (0.95 -> 950).              *)
(***************************************************************************)
EXTENDS Integers, Sequences, FiniteSets, TLC

(***************************************************************************)
(* Characters and the str methods / regular expressions the code uses.     *)
(***************************************************************************)

\* str.isspace(), regex \s and the separators of str.split()
Whitespace == {" ", "\t", "\n"}

\* the lone surrogate, the one character utf-8 cannot encode
Surrogate == "U+D800"

UpperAZ ==
  <<"A","B","C","D","E","F","G","H","I","J","K","L","M",
    "N","O","P","Q","R","S","T","U","V","W","X","Y","Z">>

LowerAZ ==
  <<"a","b","c","d","e","f","g","h","i","j","k","l","m",
    "n","o","p","q","r","s","t","u","v","w","x","y","z">>

\* letters that str.isupper() but have no lowercase mapping (U+03D2 is one of 549)
CaselessUpper == {"ϒ"}

LowerAccented == {"á","é","í","ñ","ó","ú"}

Digits == {"0","1","2","3","4","5","6","7","8","9"}

Range(s) == { s[i] : i \in 1..Len(s) }

\* regex \w under re.UNICODE: alphanumerics and the underscore
WordChars == Range(UpperAZ) \cup Range(LowerAZ) \cup CaselessUpper \cup LowerAccented \cup Digits \cup {"_"}

\* the characters the class [^\w\s...] of line 78 lists as kept
KeptPunctuation == {"¡", "!", "¿", "?", ".", ","}

UpperChars == Range(UpperAZ) \cup CaselessUpper

\* c.isupper()
IsUpper(c) == c \in UpperChars

\* the lowercase mapping of the letters that have one
LowerMap ==
  [c \in Range(UpperAZ) |-> LowerAZ[CHOOSE i \in 1..Len(UpperAZ) : UpperAZ[i] = c]]

\* c.lower() for one character
LowerChar(c) == IF c \in DOMAIN LowerMap THEN LowerMap[c] ELSE c

\* str.lower()
Lower(s) == [i \in 1..Len(s) |-> LowerChar(s[i])]

RECURSIVE LStrip(_)
LStrip(s) ==
  IF s # <<>> /\ Head(s) \in Whitespace THEN LStrip(Tail(s)) ELSE s

RECURSIVE RStrip(_)
RStrip(s) ==
  IF s # <<>> /\ s[Len(s)] \in Whitespace THEN RStrip(SubSeq(s, 1, Len(s) - 1)) ELSE s

\* str.strip()
Strip(s) == RStrip(LStrip(s))

\* str.count(c) for a one-character c
Count(s, c) == Cardinality({ i \in 1..Len(s) : s[i] = c })

\* s.startswith(p, i-1): p occurs in s at the (1-based) position i
StartsAt(s, i, p) ==
  /\ i + Len(p) - 1 <= Len(s)
  /\ \A k \in 1..Len(p) : s[i + k - 1] = p[k]

\* first position >= i holding a whitespace character, Len(s)+1 if none: the end of a greedy \S+
RECURSIVE EndOfNonSpace(_, _)
EndOfNonSpace(s, i) ==
  IF i > Len(s) \/ s[i] \in Whitespace THEN i ELSE EndOfNonSpace(s, i + 1)

\* does http\S+|www\S+|https\S+ match at position i (\S+ needs one character at least)
UrlMatchAt(s, i) ==
  \/ StartsAt(s, i, <<"h","t","t","p">>) /\ i + 4 <= Len(s) /\ s[i + 4] \notin Whitespace
  \/ StartsAt(s, i, <<"w","w","w">>) /\ i + 3 <= Len(s) /\ s[i + 3] \notin Whitespace

\* re.sub(r'http\S+|www\S+|https\S+', '', s): leftmost matches, each running to the next whitespace
RECURSIVE RemoveUrlsFrom(_, _)
RemoveUrlsFrom(s, i) ==
  IF i > Len(s) THEN <<>>
  ELSE IF UrlMatchAt(s, i) THEN RemoveUrlsFrom(s, EndOfNonSpace(s, i))
  ELSE <<s[i]>> \o RemoveUrlsFrom(s, i + 1)

RemoveUrls(s) == RemoveUrlsFrom(s, 1)

KeptChars == WordChars \cup Whitespace \cup KeptPunctuation

KeptByPunctuationFilter(c) == c \in KeptChars

\* re.sub(r'[^\w\s¡!¿?.,]', '', s)
RemovePunctuation(s) == SelectSeq(s, KeptByPunctuationFilter)

\* the k-th smallest element of a set of numbers
Nth(S, k) == CHOOSE i \in S : Cardinality({ j \in S : j <= i }) = k

\* the maximal runs of non-whitespace characters of s from position i on, in order
RECURSIVE SplitFrom(_, _)
SplitFrom(s, i) ==
  IF i > Len(s) THEN <<>>
  ELSE IF s[i] \in Whitespace THEN SplitFrom(s, i + 1)
  ELSE LET e == EndOfNonSpace(s, i) IN <<SubSeq(s, i, e - 1)>> \o SplitFrom(s, e)

\* str.split()
Split(s) == SplitFrom(s, 1)

\* s.encode('utf-8', errors=h).decode('utf-8'): a lone surrogate cannot be encoded; 'replace' puts
\* '?' in its place, 'strict' raises UnicodeEncodeError.  Every other character round-trips.
Utf8RoundTrip(s, h) ==
  IF h = "strict" /\ Surrogate \in Range(s)
    THEN [raised |-> TRUE, value |-> <<>>]
    ELSE [raised |-> FALSE, value |-> [i \in 1..Len(s) |-> IF s[i] = Surrogate THEN "?" ELSE s[i]]]

\* positive_words (lines 147-165); the list is only tested for membership, so it is a set
positive_words ==
  { <<"f","e","l","i","z">>, <<"a","l","e","g","r","e">>, <<"c","o","n","t","e","n","t","o">>,
    <<"s","a","t","i","s","f","e","c","h","o">>, <<"e","n","t","u","s","i","a","s","m","a","d","o">>,
    <<"e","m","o","c","i","o","n","a","d","o">>, <<"e","u","f","ó","r","i","c","o">>,
    <<"j","ú","b","i","l","o">>, <<"a","m","o","r">>, <<"c","a","r","i","ñ","o">>, <<"a","f","e","c","t","o">>,
    <<"t","e","r","n","u","r","a">>, <<"p","a","s","i","ó","n">>, <<"d","e","v","o","c","i","ó","n">>,
    <<"a","d","o","r","a","c","i","ó","n">>, <<"a","l","e","g","r","í","a">>, <<"j","ú","b","i","l","o">>,
    <<"f","e","l","i","c","i","d","a","d">>, <<"p","l","a","c","e","r">>, <<"g","o","z","o">>,
    <<"é","x","t","a","s","i","s">>, <<"d","e","l","e","i","t","e">>, <<"e","x","c","e","l","e","n","t","e">>,
    <<"g","e","n","i","a","l">>, <<"p","e","r","f","e","c","t","o">>,
    <<"m","a","r","a","v","i","l","l","o","s","o">>, <<"i","n","c","r","e","í","b","l","e">>,
    <<"f","a","n","t","á","s","t","i","c","o">>, <<"h","e","r","m","o","s","o">>, <<"b","e","l","l","o">>,
    <<"e","s","p","e","c","t","a","c","u","l","a","r">>, <<"m","a","g","n","í","f","i","c","o">>,
    <<"s","u","b","l","i","m","e">>, <<"e","x","c","e","p","c","i","o","n","a","l">>,
    <<"s","o","b","r","e","s","a","l","i","e","n","t","e">>, <<"b","r","i","l","l","a","n","t","e">>,
    <<"e","s","t","u","p","e","n","d","o">>, <<"f","a","b","u","l","o","s","o">>,
    <<"f","e","n","o","m","e","n","a","l">>, <<"i","m","p","r","e","s","i","o","n","a","n","t","e">>,
    <<"a","s","o","m","b","r","o","s","o">>, <<"a","d","m","i","r","a","b","l","e">>, <<"é","x","i","t","o">>,
    <<"t","r","i","u","n","f","o">>, <<"v","i","c","t","o","r","i","a">>, <<"l","o","g","r","o">>,
    <<"c","o","n","q","u","i","s","t","a">>, <<"r","e","a","l","i","z","a","c","i","ó","n">>,
    <<"c","u","m","p","l","i","m","i","e","n","t","o">>, <<"b","i","e","n">>, <<"b","u","e","n","o">>,
    <<"p","o","s","i","t","i","v","o">>, <<"ó","p","t","i","m","o">>, <<"i","d","e","a","l">>,
    <<"s","u","p","e","r","i","o","r">>, <<"m","e","j","o","r">>, <<"a","p","r","o","b","a","d","o">>,
    <<"a","c","e","p","t","a","d","o">>, <<"a","p","l","a","u","d","i","d","o">>,
    <<"e","l","o","g","i","o","s","o">>, <<"l","o","a","b","l","e">>, <<"m","e","r","i","t","o","r","i","o">>,
    <<"d","i","g","n","o">>, <<"r","e","c","o","m","e","n","d","a","d","o">>, <<"a","p","o","y","a","d","o">>,
    <<"r","e","s","p","a","l","d","a","d","o">>, <<"f","a","v","o","r","e","c","i","d","o">>,
    <<"p","r","e","f","e","r","i","d","o">>, <<"s","a","t","i","s","f","e","c","h","o">>,
    <<"c","o","m","p","l","a","c","i","d","o">>, <<"a","g","r","a","d","e","c","i","d","o">>,
    <<"r","e","c","o","n","o","c","i","d","o">>, <<"v","a","l","o","r","a","d","o">>,
    <<"a","p","r","e","c","i","a","d","o">>, <<"ú","t","i","l">>, <<"e","f","i","c","a","z">>,
    <<"e","f","i","c","i","e","n","t","e">>, <<"p","r","o","d","u","c","t","i","v","o">>,
    <<"b","e","n","e","f","i","c","i","o","s","o">>, <<"p","r","o","v","e","c","h","o","s","o">> }

\* negative_words (lines 167-186); 'mal funcionamiento' holds a space and can match no token
negative_words ==
  { <<"t","r","i","s","t","e">>, <<"d","e","p","r","i","m","i","d","o">>,
    <<"d","e","s","a","n","i","m","a","d","o">>, <<"a","b","a","t","i","d","o">>,
    <<"m","e","l","a","n","c","ó","l","i","c","o">>, <<"a","p","e","n","a","d","o">>,
    <<"a","f","l","i","g","i","d","o">>, <<"e","n","o","j","o">>, <<"i","r","a">>, <<"f","u","r","i","a">>,
    <<"r","a","b","i","a">>, <<"i","n","d","i","g","n","a","c","i","ó","n">>,
    <<"r","e","s","e","n","t","i","m","i","e","n","t","o">>, <<"a","m","a","r","g","u","r","a">>,
    <<"m","i","e","d","o">>, <<"t","e","r","r","o","r">>, <<"p","á","n","i","c","o">>,
    <<"a","n","g","u","s","t","i","a">>, <<"a","n","s","i","e","d","a","d">>,
    <<"p","r","e","o","c","u","p","a","c","i","ó","n">>, <<"t","e","m","o","r">>, <<"o","d","i","o">>,
    <<"a","v","e","r","s","i","ó","n">>, <<"r","e","p","u","l","s","i","ó","n">>,
    <<"d","e","s","p","r","e","c","i","o">>, <<"a","n","i","m","a","d","v","e","r","s","i","ó","n">>,
    <<"h","o","s","t","i","l","i","d","a","d">>, <<"f","r","u","s","t","r","a","c","i","ó","n">>,
    <<"d","e","s","e","s","p","e","r","a","c","i","ó","n">>, <<"d","e","s","i","l","u","s","i","ó","n">>,
    <<"d","e","c","e","p","c","i","ó","n">>, <<"d","e","s","e","n","g","a","ñ","o">>,
    <<"p","r","o","b","l","e","m","a">>, <<"d","i","f","i","c","u","l","t","a","d">>,
    <<"o","b","s","t","á","c","u","l","o">>, <<"i","m","p","e","d","i","m","e","n","t","o">>,
    <<"t","r","a","b","a">>, <<"c","o","m","p","l","i","c","a","c","i","ó","n">>, <<"e","r","r","o","r">>,
    <<"f","a","l","l","o">>, <<"d","e","f","e","c","t","o">>,
    <<"i","m","p","e","r","f","e","c","c","i","ó","n">>, <<"f","a","l","l","a">>, <<"a","v","e","r","í","a">>,
    <<"m","a","l"," ","f","u","n","c","i","o","n","a","m","i","e","n","t","o">>,
    <<"d","e","s","a","s","t","r","e">>, <<"c","a","t","á","s","t","r","o","f","e">>,
    <<"c","a","l","a","m","i","d","a","d">>, <<"t","r","a","g","e","d","i","a">>, <<"d","r","a","m","a">>,
    <<"d","e","s","g","r","a","c","i","a">>, <<"m","a","l","o">>, <<"t","e","r","r","i","b","l","e">>,
    <<"h","o","r","r","i","b","l","e">>, <<"e","s","p","a","n","t","o","s","o">>, <<"p","é","s","i","m","o">>,
    <<"a","b","o","m","i","n","a","b","l","e">>, <<"d","e","t","e","s","t","a","b","l","e">>,
    <<"d","e","f","i","c","i","e","n","t","e">>, <<"i","n","s","u","f","i","c","i","e","n","t","e">>,
    <<"i","n","a","d","e","c","u","a","d","o">>, <<"i","n","a","p","r","o","p","i","a","d","o">>,
    <<"i","n","c","o","r","r","e","c","t","o">>, <<"m","a","l">>, <<"n","e","g","a","t","i","v","o">>,
    <<"d","e","s","f","a","v","o","r","a","b","l","e">>, <<"p","e","r","j","u","d","i","c","i","a","l">>,
    <<"d","a","ñ","i","n","o">>, <<"n","o","c","i","v","o">>, <<"d","e","s","c","o","n","t","e","n","t","o">>,
    <<"i","n","s","a","t","i","s","f","e","c","h","o">>,
    <<"d","e","s","i","l","u","s","i","o","n","a","d","o">>,
    <<"d","e","c","e","p","c","i","o","n","a","d","o">>, <<"d","e","s","e","n","g","a","ñ","a","d","o">>,
    <<"q","u","e","j","a">>, <<"r","e","c","l","a","m","o">>, <<"d","e","n","u","n","c","i","a">>,
    <<"p","r","o","t","e","s","t","a">>, <<"d","i","s","c","o","n","f","o","r","m","i","d","a","d">>,
    <<"c","r","í","t","i","c","a">>, <<"c","e","n","s","u","r","a">>, <<"c","o","n","d","e","n","a">>,
    <<"r","e","p","r","o","b","a","c","i","ó","n">>, <<"d","e","s","a","p","r","o","b","a","c","i","ó","n">> }

\* intensifiers (lines 189-190)
intensifiers ==
  { <<"m","u","y">>, <<"m","u","c","h","o">>, <<"b","a","s","t","a","n","t","e">>,
    <<"e","x","t","r","e","m","a","d","a","m","e","n","t","e">>,
    <<"i","n","c","r","e","í","b","l","e","m","e","n","t","e">>,
    <<"t","e","r","r","i","b","l","e","m","e","n","t","e">>,
    <<"a","b","s","o","l","u","t","a","m","e","n","t","e">>,
    <<"c","o","m","p","l","e","t","a","m","e","n","t","e">>, <<"t","o","t","a","l","m","e","n","t","e">>,
    <<"r","e","a","l","m","e","n","t","e">>, <<"v","e","r","d","a","d","e","r","a","m","e","n","t","e">> }

\* negations (line 193)
negations ==
  { <<"n","o">>, <<"n","u","n","c","a">>, <<"j","a","m","á","s">>, <<"t","a","m","p","o","c","o">>,
    <<"n","i">>, <<"s","i","n">>, <<"m","e","n","o","s">> }

(***************************************************************************)
(* Arithmetic on the exact values of the floats.                           *)
(***************************************************************************)

Min(a, b) == IF a <= b THEN a ELSE b

Abs(a) == IF a < 0 THEN -a ELSE a

\* fractions are pairs <<numerator, denominator>>, denominator > 0
Divides(d, x) == x[1] % d = 0 /\ x[2] % d = 0

\* the fraction in lowest terms
Reduce(x) ==
  LET g == CHOOSE d \in 1..x[2] : Divides(d, x) /\ \A e \in (d + 1)..x[2] : ~Divides(e, x)
  IN  <<x[1] \div g, x[2] \div g>>

\* round(n/d, 3) for a value n/d >= 0 given in thousandths.  The double that line 135 holds is
\* the exact product up to rounding error, so round() returns the nearest thousandth, and where
\* the exact product lies midway between two thousandths the error decides: below tells
\* whether the double lies below the midpoint.
RoundToThousandth(n, d, below) ==
  LET q == n \div d
      r == n % d
  IN  IF 2 * r > d THEN q + 1
      ELSE IF 2 * r < d THEN q
      ELSE IF below THEN q ELSE q + 1

(***************************************************************************)
(* get_emotion_from_sentiment                                              *)
(***************************************************************************)

\* the NEUTRAL branch with the bands of the two other branches
get_emotion_from_sentiment_same_bands(sentimiento, intensity) ==
  IF sentimiento = "POSITIVO" THEN
    IF intensity > 700 THEN "Alegría Extrema"
    ELSE IF intensity > 500 THEN "Alegría"
    ELSE "Satisfacción"
  ELSE IF sentimiento = "NEGATIVO" THEN
    IF intensity > 700 THEN "Ira Extrema"
    ELSE IF intensity > 500 THEN "Enojo/Frustración"
    ELSE "Descontento"
  ELSE
    IF intensity > 700 THEN "Sorpresa"
    ELSE IF intensity > 500 THEN "Indiferencia"
    ELSE "NEUTRALIDAD"

\* intensity in thousandths
get_emotion_from_sentiment(sentimiento, intensity) ==
  IF sentimiento = "POSITIVO" THEN
    IF intensity > 700 THEN "Alegría Extrema"
    ELSE IF intensity > 500 THEN "Alegría"
    ELSE "Satisfacción"
  ELSE IF sentimiento = "NEGATIVO" THEN
    IF intensity > 700 THEN "Ira Extrema"
    ELSE IF intensity > 500 THEN "Enojo/Frustración"
    ELSE "Descontento"
  ELSE
    IF intensity > 600 THEN "Sorpresa"
    ELSE IF intensity > 400 THEN "Indiferencia"
    ELSE "NEUTRALIDAD"

(***************************************************************************)
(* calculate_intensity                                                     *)
(***************************************************************************)

\* lines 112-115 with 0.8 in place of 0.9 for texts below 5 words
LengthFactor_short_0_8(text_length) ==
  IF text_length > 20 THEN 11
  ELSE IF text_length < 5 THEN 8
  ELSE 10

\* lines 112-115, in tenths: 1.1 above 20 words, 0.9 below 5
LengthFactor(text_length) ==
  IF text_length > 20 THEN 11
  ELSE IF text_length < 5 THEN 9
  ELSE 10

\* lines 118-119, in tenths: 1.0 + min(exclamation_count * 0.1, 0.3)
ExclamationFactor(exclamation_count) ==
  IF exclamation_count > 0 THEN 10 + Min(exclamation_count, 3) ELSE 10

\* lines 120-121 with the coefficients of line 119: 1.0 + min(question_count * 0.1, 0.3)
QuestionFactor_as_exclamation(question_count) ==
  IF question_count > 0 THEN 20 + 2 * Min(question_count, 3) ELSE 20

\* lines 120-121, in twentieths: 1.0 + min(question_count * 0.05, 0.2)
QuestionFactor(question_count) ==
  IF question_count > 0 THEN 20 + Min(question_count, 4) ELSE 20

\* lines 106 and 124-125, a fraction in lowest terms: caps_ratio = upper / len(text), 0 for the
\* empty text; above 0.3 the factor is 1.0 + min(caps_ratio * 0.5, 0.4)
CapsFactor(text) ==
  LET upper == Cardinality({ i \in 1..Len(text) : IsUpper(text[i]) })
      n     == Len(text)
  IN  IF text # <<>> /\ 10 * upper > 3 * n
        THEN IF 5 * upper >= 4 * n THEN <<7, 5>> ELSE Reduce(<<2 * n + upper, 2 * n>>)
        ELSE <<1, 1>>

\* lines 128-133, in twentieths
SentimentFactor(sentiment) ==
  IF sentiment = "NEGATIVO" THEN 22
  ELSE IF sentiment = "POSITIVO" THEN 21
  ELSE 20

\* lines 103-133: the factors <<length, exclamation, question, caps, sentiment>>
Factors(text, sentiment) ==
  << LengthFactor(Len(Split(text))),
     ExclamationFactor(Count(text, "!") + Count(text, "¡")),
     QuestionFactor(Count(text, "?") + Count(text, "¿")),
     CapsFactor(text),
     SentimentFactor(sentiment) >>

\* lines 109-133: the product of the factors, a fraction
intensity_multiplier(text, sentiment) ==
  LET k == Factors(text, sentiment)
  IN  <<k[1] * k[2] * k[3] * k[4][1] * k[5], 10 * 10 * 20 * 20 * k[4][2]>>

\* line 135 without the min(..., 1.0)
final_intensity_unclamped(base_intensity, m) ==
  <<(base_intensity \div 25) * m[1], m[2] \div 25>>

\* line 135, a fraction in thousandths: min(base_intensity * intensity_multiplier, 1.0), not
\* yet rounded.  base_intensity is a confidence, a multiple of 0.025 (0.5 + 0.1 * total with
\* total a multiple of 0.25), and the denominator of m a multiple of 25: the fraction is
\* written with both divided by 25.
final_intensity(base_intensity, m) ==
  LET n == (base_intensity \div 25) * m[1]
      d == m[2] \div 25
  IN  IF n >= 1000 * d THEN <<1000, 1>> ELSE <<n, d>>

\* The operands <<confidence, length, exclamation, question, caps, sentiment factor>> of lines
\* 100-135 whose exact product is a midpoint between two thousandths and whose IEEE-754 double
\* product (multiplied in the order of the code) lies below it; the double of every other
\* midpoint lies above.  Complete for the caps factors 1, 7/6, 5/4 and 7/5.
DoubleBelowMidpoint ==
  { <<500, 11, 10, 23, <<1, 1>>, 20>>, <<500, 11, 10, 23, <<7, 5>>, 20>>,
    <<500, 9, 10, 20, <<5, 4>>, 20>>, <<500, 9, 10, 21, <<7, 5>>, 20>>,
    <<500, 9, 10, 23, <<1, 1>>, 20>>, <<500, 9, 10, 23, <<7, 5>>, 20>>,
    <<500, 10, 11, 23, <<1, 1>>, 20>>, <<500, 10, 11, 23, <<7, 5>>, 20>>,
    <<500, 10, 12, 21, <<5, 4>>, 20>>, <<500, 10, 12, 23, <<5, 4>>, 20>>,
    <<500, 10, 13, 20, <<5, 4>>, 20>>, <<500, 10, 13, 23, <<1, 1>>, 20>>,
    <<550, 10, 10, 20, <<7, 5>>, 21>>, <<575, 10, 10, 20, <<1, 1>>, 22>>,
    <<575, 10, 10, 20, <<7, 5>>, 22>>, <<575, 10, 10, 24, <<1, 1>>, 21>>,
    <<575, 10, 12, 20, <<1, 1>>, 21>>, <<600, 9, 10, 20, <<7, 6>>, 21>>,
    <<600, 10, 10, 20, <<5, 4>>, 21>>, <<600, 10, 10, 21, <<1, 1>>, 21>>,
    <<600, 10, 10, 23, <<7, 6>>, 22>>, <<625, 10, 10, 24, <<1, 1>>, 21>>,
    <<625, 10, 12, 20, <<1, 1>>, 21>>, <<700, 9, 10, 20, <<1, 1>>, 21>>,
    <<700, 10, 10, 20, <<5, 4>>, 22>>, <<700, 10, 10, 23, <<1, 1>>, 22>>,
    <<725, 10, 10, 20, <<1, 1>>, 22>>, <<725, 10, 10, 24, <<1, 1>>, 21>>,
    <<725, 10, 12, 20, <<1, 1>>, 21>>, <<825, 10, 10, 20, <<1, 1>>, 22>>,
    <<950, 10, 10, 20, <<1, 1>>, 21>> }

BelowMidpoint(confidence, text, sentiment) ==
  <<confidence>> \o Factors(text, sentiment) \in DoubleBelowMidpoint

\* lines 100-136; confidence and the result in thousandths
calculate_intensity(text, confidence, sentiment) ==
  LET f == final_intensity(confidence, intensity_multiplier(text, sentiment))
  IN  RoundToThousandth(f[1], f[2], BelowMidpoint(confidence, text, sentiment))

(***************************************************************************)
(* generate_analysis_explanation: the explanation is the sequence of its   *)
(* sentences (explanation_parts); " ".join keeps their order.  A sentence  *)
(* carries the values its f-string formats.                                *)
(***************************************************************************)

Part(kind, label, words, num, count) ==
  [kind |-> kind, label |-> label, words |-> words, num |-> num, count |-> count]

\* emotion_explanations without the entry of 'Sorpresa'
emotion_explanations_without_sorpresa ==
  [e \in {"Alegría Extrema", "Alegría", "Satisfacción", "Indiferencia",
          "Enojo/Frustración", "Ira Extrema", "VACÍO"} |->
     CASE e = "Alegría Extrema"   -> "Emoción de máxima satisfacción y entusiasmo."
       [] e = "Alegría"           -> "Sentimiento positivo de satisfacción y bienestar."
       [] e = "Satisfacción"      -> "Estado de contentamiento moderado."
       [] e = "Indiferencia"      -> "Ausencia de emoción fuerte, neutralidad emocional."
       [] e = "Enojo/Frustración" -> "Insatisfacción moderada con elementos de molestia."
       [] e = "Ira Extrema"       -> "Máxima expresión de enfado y descontento."
       [] e = "VACÍO"             -> "Sin contenido emocional detectable."]

\* lines 278-287: the description of each emotion that has one
emotion_explanations ==
  [e \in {"Alegría Extrema", "Alegría", "Satisfacción", "Indiferencia",
          "Enojo/Frustración", "Ira Extrema", "Sorpresa", "VACÍO"} |->
     CASE e = "Alegría Extrema"   -> "Emoción de máxima satisfacción y entusiasmo."
       [] e = "Alegría"           -> "Sentimiento positivo de satisfacción y bienestar."
       [] e = "Satisfacción"      -> "Estado de contentamiento moderado."
       [] e = "Indiferencia"      -> "Ausencia de emoción fuerte, neutralidad emocional."
       [] e = "Enojo/Frustración" -> "Insatisfacción moderada con elementos de molestia."
       [] e = "Ira Extrema"       -> "Máxima expresión de enfado y descontento."
       [] e = "Sorpresa"          -> "Reacción emocional ante lo inesperado."
       [] e = "VACÍO"             -> "Sin contenido emocional detectable."]

\* line 292
intensity_level(intensity) ==
  IF intensity < 400 THEN "baja" ELSE IF intensity < 700 THEN "moderada" ELSE "alta"

generate_analysis_explanation(sentiment, emotion, confidence, intensity, positive, negative, intens, negs, pos_count, neg_count) ==
  LET main ==
        IF sentiment = "POSITIVO" THEN
          <<Part("headline", "POSITIVO", <<>>, confidence, 0)>>
          \o (IF positive # <<>> THEN <<Part("positive_words", "", positive, 0, 0)>> ELSE <<>>)
          \o (IF pos_count > 0
                THEN <<Part("positive_score", "", <<>>, pos_count, Len(positive))>> ELSE <<>>)
        ELSE IF sentiment = "NEGATIVO" THEN
          <<Part("headline", "NEGATIVO", <<>>, confidence, 0)>>
          \o (IF negative # <<>> THEN <<Part("negative_words", "", negative, 0, 0)>> ELSE <<>>)
          \o (IF neg_count > 0
                THEN <<Part("negative_score", "", <<>>, neg_count, Len(negative))>> ELSE <<>>)
        ELSE <<Part("headline", "NEUTRAL", <<>>, 0, 0)>>
      emo ==
        IF emotion \in DOMAIN emotion_explanations
          THEN <<Part("emotion", emotion, <<emotion_explanations[emotion]>>, 0, 0)>> ELSE <<>>
      inten == <<Part("intensity", intensity_level(intensity), <<>>, intensity, 0)>>
      mods ==
        (IF intens # <<>> THEN <<Part("intensifiers", "", intens, 0, 0)>> ELSE <<>>)
        \o (IF negs # <<>> THEN <<Part("negations", "", negs, 0, 0)>> ELSE <<>>)
      rec ==
        IF sentiment \in {"POSITIVO", "NEGATIVO"}
          THEN <<Part("recommendation", sentiment, <<>>, 0, 0)>>
          ELSE <<Part("recommendation", "NEUTRAL", <<>>, 0, 0)>>
  IN  main \o emo \o inten \o mods \o rec


(***************************************************************************)
(* analyze_text_fallback_detailed                                          *)
(***************************************************************************)

\* line 143 with the default error handler
EncodeErrors_strict == "strict"

\* line 143: the error handler given to text_input.encode
EncodeErrors == "replace"

\* lines 196-201: the counters and lists every call binds anew
Accumulators0 ==
  [positive_count |-> 0, negative_count |-> 0,
   found_positive_words |-> <<>>, found_negative_words |-> <<>>,
   found_intensifiers |-> <<>>, found_negations |-> <<>>]

\* the locals of a call that has not entered analyze_text_fallback_detailed
NoFrame ==
  [entered |-> FALSE, raised |-> FALSE, text_input |-> <<>>, cleaned_text |-> <<>>,
   words |-> <<>>, i |-> 1,
   positive_count |-> 0, negative_count |-> 0,
   found_positive_words |-> <<>>, found_negative_words |-> <<>>,
   found_intensifiers |-> <<>>, found_negations |-> <<>>]

\* line 144 rebinding text_input instead of binding cleaned_text: the text handed back at line 251
\* is then the trimmed, lowercased one
EnterFallback_rebound(text_input, acc) ==
  LET rt      == Utf8RoundTrip(text_input, EncodeErrors)
      cleaned == Lower(Strip(rt.value))
  IN  IF rt.raised THEN [NoFrame EXCEPT !.entered = TRUE, !.raised = TRUE]
      ELSE [entered |-> TRUE, raised |-> FALSE, text_input |-> cleaned, cleaned_text |-> cleaned,
            words |-> Split(cleaned), i |-> 1,
            positive_count |-> acc.positive_count, negative_count |-> acc.negative_count,
            found_positive_words |-> acc.found_positive_words,
            found_negative_words |-> acc.found_negative_words,
            found_intensifiers |-> acc.found_intensifiers,
            found_negations |-> acc.found_negations]

\* lines 143-203: the locals when the loop is reached, acc being the accumulators of lines 196-201
EnterFallback(text_input, acc) ==
  LET rt      == Utf8RoundTrip(text_input, EncodeErrors)
      cleaned == Lower(Strip(rt.value))
  IN  IF rt.raised THEN [NoFrame EXCEPT !.entered = TRUE, !.raised = TRUE]
      ELSE [entered |-> TRUE, raised |-> FALSE, text_input |-> rt.value, cleaned_text |-> cleaned,
            words |-> Split(cleaned), i |-> 1,
            positive_count |-> acc.positive_count, negative_count |-> acc.negative_count,
            found_positive_words |-> acc.found_positive_words,
            found_negative_words |-> acc.found_negative_words,
            found_intensifiers |-> acc.found_intensifiers,
            found_negations |-> acc.found_negations]

\* line 208 with -1 for -0.5: the negated word counted as its opposite
negation_multiplier_flip(words, i) ==
  IF i > 1 /\ words[i - 1] \in negations THEN -2 ELSE 2

\* line 207 looking two words back as well
negation_multiplier_two_back(words, i) ==
  IF \/ i > 1 /\ words[i - 1] \in negations
     \/ i > 2 /\ words[i - 2] \in negations
    THEN -1 ELSE 2

\* lines 206-208, in halves, for the word at the 1-based position i
negation_multiplier(words, i) ==
  IF i > 1 /\ words[i - 1] \in negations THEN -1 ELSE 2

\* line 215 with 0.5 for 1.5
intensifier_multiplier_half(words, i) ==
  IF i > 1 /\ words[i - 1] \in intensifiers THEN 1 ELSE 2

\* line 214 looking two words back as well
intensifier_multiplier_two_back(words, i) ==
  IF \/ i > 1 /\ words[i - 1] \in intensifiers
     \/ i > 2 /\ words[i - 2] \in intensifiers
    THEN 3 ELSE 2

\* lines 213-215, in halves
intensifier_multiplier(words, i) ==
  IF i > 1 /\ words[i - 1] \in intensifiers THEN 3 ELSE 2

\* "if w not in found: found.append(w)" without the append
AppendNew_never(found, w) == found

\* found.append(w) without the test "w not in found"
AppendNew_unconditional(found, w) == Append(found, w)

\* "if w not in found: found.append(w)"
AppendNew(found, w) == IF w \in Range(found) THEN found ELSE Append(found, w)

\* lines 204-226: one iteration of the loop, for the word at position f.i
LoopBody(f) ==
  LET i    == f.i
      word == f.words[i]
      \* 1 * intensifier_multiplier * negation_multiplier, in quarters
      contribution == intensifier_multiplier(f.words, i) * negation_multiplier(f.words, i)
      negated     == i > 1 /\ f.words[i - 1] \in negations
      intensified == i > 1 /\ f.words[i - 1] \in intensifiers
  IN  [f EXCEPT
         !.i = i + 1,
         !.found_negations =
            IF negated THEN AppendNew(f.found_negations, f.words[i - 1]) ELSE @,
         !.found_intensifiers =
            IF intensified THEN AppendNew(f.found_intensifiers, f.words[i - 1]) ELSE @,
         !.positive_count = IF word \in positive_words THEN @ + contribution ELSE @,
         !.found_positive_words = IF word \in positive_words THEN AppendNew(@, word) ELSE @,
         !.negative_count =
            IF word \notin positive_words /\ word \in negative_words THEN @ + contribution ELSE @,
         !.found_negative_words =
            IF word \notin positive_words /\ word \in negative_words THEN AppendNew(@, word) ELSE @]

LoopDone(f) == f.raised \/ f.i > Len(f.words)

RECURSIVE RunLoop(_)
RunLoop(f) == IF LoopDone(f) THEN f ELSE RunLoop(LoopBody(f))

\* lines 231 and 234 with >= 0.5 and <= -0.5
Classify_inclusive(total_sentiment_score) ==
  IF total_sentiment_score >= 2
    THEN [sentimiento |-> "POSITIVO",
          confidence |-> Min(500 + 25 * total_sentiment_score, 950)]
  ELSE IF total_sentiment_score <= -2
    THEN [sentimiento |-> "NEGATIVO",
          confidence |-> Min(500 + 25 * Abs(total_sentiment_score), 950)]
  ELSE [sentimiento |-> "NEUTRAL", confidence |-> 500]

\* lines 229-239: total_sentiment_score in quarters, confidence in thousandths
Classify(total_sentiment_score) ==
  IF total_sentiment_score > 2
    THEN [sentimiento |-> "POSITIVO",
          confidence |-> Min(500 + 25 * total_sentiment_score, 950)]
  ELSE IF total_sentiment_score < -2
    THEN [sentimiento |-> "NEGATIVO",
          confidence |-> Min(500 + 25 * Abs(total_sentiment_score), 950)]
  ELSE [sentimiento |-> "NEUTRAL", confidence |-> 500]

\* what a call hands to its caller: an exception, or the returned tuple
Raise == [raised |-> TRUE, value |-> <<>>]

Return(value) == [raised |-> FALSE, value |-> value]

\* lines 245-249 with found_negations and found_intensifiers in each other's place
FallbackReturn_modifiers_swapped(f) ==
  IF f.raised THEN Raise
  ELSE
    LET c         == Classify(f.positive_count - f.negative_count)
        intensity == calculate_intensity(f.cleaned_text, c.confidence, c.sentimiento)
        emocion   == get_emotion_from_sentiment(c.sentimiento, intensity)
        explanation ==
          generate_analysis_explanation(c.sentimiento, emocion, c.confidence, intensity,
            f.found_positive_words, f.found_negative_words,
            f.found_negations, f.found_intensifiers,
            f.positive_count, f.negative_count)
    IN  Return(<<f.text_input, c.sentimiento, emocion, intensity, c.confidence, explanation>>)

\* line 241 handing text_input, not cleaned_text, to calculate_intensity
FallbackReturn_intensity_of_input(f) ==
  IF f.raised THEN Raise
  ELSE
    LET c         == Classify(f.positive_count - f.negative_count)
        intensity == calculate_intensity(f.text_input, c.confidence, c.sentimiento)
        emocion   == get_emotion_from_sentiment(c.sentimiento, intensity)
        explanation ==
          generate_analysis_explanation(c.sentimiento, emocion, c.confidence, intensity,
            f.found_positive_words, f.found_negative_words,
            f.found_intensifiers, f.found_negations,
            f.positive_count, f.negative_count)
    IN  Return(<<f.text_input, c.sentimiento, emocion, intensity, c.confidence, explanation>>)

\* lines 229-251, from the locals the loop leaves
FallbackReturn(f) ==
  IF f.raised THEN Raise
  ELSE
    LET c         == Classify(f.positive_count - f.negative_count)
        intensity == calculate_intensity(f.cleaned_text, c.confidence, c.sentimiento)
        emocion   == get_emotion_from_sentiment(c.sentimiento, intensity)
        explanation ==
          generate_analysis_explanation(c.sentimiento, emocion, c.confidence, intensity,
            f.found_positive_words, f.found_negative_words,
            f.found_intensifiers, f.found_negations,
            f.positive_count, f.negative_count)
    IN  Return(<<f.text_input, c.sentimiento, emocion, intensity, c.confidence, explanation>>)

analyze_text_fallback_detailed(text_input) ==
  FallbackReturn(RunLoop(EnterFallback(text_input, Accumulators0)))

(***************************************************************************)
(* analyze_text                                                            *)
(***************************************************************************)

\* lines 72-78: cleaned_text
Preprocess(text_input) == RemovePunctuation(RemoveUrls(Lower(Strip(text_input))))

\* line 80 without the strip(): len(cleaned_text) < 3
TooShort_unstripped(cleaned_text) == cleaned_text = <<>> \/ Len(cleaned_text) < 3

\* line 80
TooShort(cleaned_text) == cleaned_text = <<>> \/ Len(Strip(cleaned_text)) < 3

\* lines 81-82
TooShortReturn(text_input) ==
  Return(<<text_input, "NEUTRAL", "VACÍO", 0, 0, <<Part("too_short", "", <<>>, 0, 0)>> >>)

\* the locals analyze_text_fallback_detailed ends with in the call analyze_text(text_input);
\* line 86 hands it text_input, not cleaned_text
LocalsAtReturn(text_input) ==
  IF TooShort(Preprocess(text_input))
    THEN NoFrame
    ELSE RunLoop(EnterFallback(text_input, Accumulators0))

\* what analyze_text(text_input) hands back, f being the locals of the fallback if it ran
ReturnFrom(text_input, f) ==
  IF f.entered THEN FallbackReturn(f) ELSE TooShortReturn(text_input)

\* lines 72-86
analyze_text(text_input) == ReturnFrom(text_input, LocalsAtReturn(text_input))

(***************************************************************************)
(* Input texts.                                                            *)
(***************************************************************************)

bueno == <<"b","u","e","n","o">>

feliz == <<"f","e","l","i","z">>

malo == <<"m","a","l","o">>

\* whitespace tokens the environment builds texts from: lexicon words, modifiers, a word of no
\* lexicon, a word in capitals, a word with a stripped character attached, emphasis marks,
\* a URL, letters that stay uppercase, and a lone surrogate
Tokens ==
  { bueno, malo, <<"n","o">>, <<"m","u","y">>, <<"h","o","y">>,
    <<"B","U","E","N","O">>, <<"#","n","o">>,
    <<"!","¡","!","?","¿","?","¿">>,
    <<"H","t","t","p",":","/","/","x">>,
    <<"ϒ","ϒ","ϒ">>,
    <<Surrogate>> }

\* longest free sequence of tokens in a text
MaxWords == 2

\* a text may end with a run of one repeated word: <<word, length of the run>>
Pads == { <<bueno, 3>>, <<malo, 3>>, <<<<"n","o"," ">> \o malo, 2>>, <<<<"y">>, 19>> }

\* a text may be wrapped in whitespace
Margins == { <<>>, <<" ">> }

SeqsUpTo(S, n) == UNION { [1..k -> S] : k \in 0..n }

Rep(w, k) == [i \in 1..k |-> w]

\* " ".join(ws)
RECURSIVE Join(_)
Join(ws) ==
  IF ws = <<>> THEN <<>>
  ELSE IF Len(ws) = 1 THEN ws[1]
  ELSE ws[1] \o <<" ">> \o Join(Tail(ws))

Inputs ==
  { m \o Join(ws) \o m : ws \in SeqsUpTo(Tokens, MaxWords), m \in Margins }
    \cup { Join(ws \o Rep(p[1], p[2])) : ws \in SeqsUpTo(Tokens, MaxWords), p \in Pads }

\* words a second call appends to the text of the first
FollowUps == { bueno, feliz, malo }

\* texts of the interleaved calls: empty, blank, too short, punctuation only, URL only,
\* a lone surrogate, and texts that reach the loop
CallTexts ==
  { <<>>, <<" ", " ">>, <<"n","o">>, <<"!","?","!">>, <<"w","w","w",".","x">>,
    <<Surrogate>> \o <<" ">> \o bueno,
    <<"n","o"," ">> \o bueno,
    bueno \o <<" ">> \o bueno,
    <<"m","u","y"," ">> \o malo }

(***************************************************************************)
(* State: two callers of analyze_text, each with the text it passed, its   *)
(* position in the call, the locals of its call of                         *)
(* analyze_text_fallback_detailed, what the call handed back, and the last *)
(* (text, outcome) it observed.                                            *)
(***************************************************************************)

VARIABLES pc, arg, frame, result, last

\* db_manager: the flag of line 7 and the rows of the table insights.  app: the dashboard
\* WebSockets of manager (and which of them no longer accept a send), the globals of lines
\* 117-123, and what the last request or call handed back.
VARIABLES DB_AVAILABLE, insights, active_connections, broken, recent_analyses, last_results, last_status, last_pdf, last_analysis_time, response

\* model_analyzer: the global model of line 5, the number of pipeline objects constructed so
\* far, and each caller's call of get_model
VARIABLES model, constructed, loader

modelVars == <<model, constructed, loader>>

appVars == <<DB_AVAILABLE, insights, active_connections, broken, recent_analyses, last_results, last_status, last_pdf, last_analysis_time, response, modelVars>>

vars == <<pc, arg, frame, result, last, appVars>>

Threads == {1, 2}

NoResult == [raised |-> FALSE, value |-> <<>>]

NoCall == [called |-> FALSE, arg |-> <<>>, result |-> NoResult]

\* locals kept in one place shared by all callers (module-level globals)
LocalsOf_shared(t) == 1

\* the locals of the call of thread t: every call has its own
LocalsOf(t) == t

\* accumulators bound once (at module level, or as default arguments) and left as the previous
\* call of the thread left them
CallLocals_stale(t) ==
  LET f == frame[LocalsOf(t)]
  IN  IF f.entered /\ ~f.raised
        THEN [positive_count |-> f.positive_count, negative_count |-> f.negative_count,
              found_positive_words |-> f.found_positive_words,
              found_negative_words |-> f.found_negative_words,
              found_intensifiers |-> f.found_intensifiers,
              found_negations |-> f.found_negations]
        ELSE Accumulators0

\* the accumulators the call of thread t starts from (lines 196-201 rebind them in every call)
CallLocals(t) == Accumulators0

\* an Optional value: None is the empty tuple, a value x the tuple of x
None == <<>>

Some(x) == <<x>>

\* no request served yet
NoResponse == [op |-> "none"]

\* app.py lines 25 and 117-123, and an empty table
AppInit ==
  /\ insights = <<>>
  /\ active_connections = <<>>
  /\ broken = {}
  /\ recent_analyses = <<>>
  /\ last_results = None
  /\ last_status = None
  /\ last_pdf = None
  /\ last_analysis_time = None
  /\ response = NoResponse

\* a caller that has not called get_model: where its call stands, the loop variable attempt,
\* what line 9 read in model, the load attempts, the successful loads and the waits of the
\* call, what the call returned, and the calls made so far
NoLoader ==
  [pc |-> "idle", attempt |-> 0, found |-> None, attempts |-> 0, loads |-> 0, waits |-> <<>>,
   returned |-> None, calls |-> 0]

\* model_analyzer.py line 5: model = None
ModelInit ==
  /\ model = None
  /\ constructed = 0
  /\ loader = [t \in Threads |-> NoLoader]

\* model_analyzer on its own: db_manager as imported (line 7), no request served
Init ==
  /\ pc = [t \in Threads |-> "idle"]
  /\ arg = [t \in Threads |-> <<>>]
  /\ frame = [t \in Threads |-> NoFrame]
  /\ result = [t \in Threads |-> NoResult]
  /\ last = [t \in Threads |-> NoCall]
  /\ DB_AVAILABLE = FALSE
  /\ AppInit
  /\ ModelInit

\* analyze_text(text_input) as one step: lines 61-86 with the whole of the fallback
Analyze(t, text_input) ==
  /\ pc[t] = "idle"
  /\ pc' = [pc EXCEPT ![t] = "done"]
  /\ arg' = [arg EXCEPT ![t] = text_input]
  /\ LET f == LocalsAtReturn(text_input)
     IN  /\ result' = [result EXCEPT ![t] = ReturnFrom(text_input, f)]
         /\ frame' = [frame EXCEPT ![LocalsOf(t)] = f]
  /\ UNCHANGED <<last, appVars>>

\* a client analyses a text
FirstCall == \E text_input \in Inputs : Analyze(1, text_input)

\* and then the same text with one more word
FollowUpCall ==
  /\ pc[1] = "done"
  /\ \E w \in FollowUps : Analyze(2, arg[1] \o <<" ">> \o w)

Next == FirstCall \/ FollowUpCall

Spec == Init /\ [][Next]_vars

(***************************************************************************)
(* The same calls step by step, interleaved between the two threads.       *)
(***************************************************************************)

\* lines 72-86 and 143-203: up to the short-circuit return or the head of the loop
Call(t, text_input) ==
  /\ pc[t] = "idle"
  /\ arg' = [arg EXCEPT ![t] = text_input]
  /\ IF TooShort(Preprocess(text_input))
       THEN /\ result' = [result EXCEPT ![t] = TooShortReturn(text_input)]
            /\ pc' = [pc EXCEPT ![t] = "done"]
            /\ UNCHANGED frame
       ELSE /\ frame' = [frame EXCEPT ![LocalsOf(t)] = EnterFallback(text_input, CallLocals(t))]
            /\ pc' = [pc EXCEPT ![t] = "loop"]
            /\ UNCHANGED result
  /\ UNCHANGED <<last, appVars>>

\* lines 204-226: one iteration
Iterate(t) ==
  /\ pc[t] = "loop"
  /\ ~LoopDone(frame[LocalsOf(t)])
  /\ frame' = [frame EXCEPT ![LocalsOf(t)] = LoopBody(@)]
  /\ UNCHANGED <<pc, arg, result, last, appVars>>

\* lines 229-251: classification, intensity, emotion, explanation, return (or the exception
\* of line 143 reaching the caller)
Finish(t) ==
  /\ pc[t] = "loop"
  /\ LoopDone(frame[LocalsOf(t)])
  /\ result' = [result EXCEPT ![t] = FallbackReturn(frame[LocalsOf(t)])]
  /\ pc' = [pc EXCEPT ![t] = "done"]
  /\ UNCHANGED <<arg, frame, last, appVars>>

\* the caller takes what the call handed back
Collect(t) ==
  /\ pc[t] = "done"
  /\ last' = [last EXCEPT ![t] = [called |-> TRUE, arg |-> arg[t], result |-> result[t]]]
  /\ pc' = [pc EXCEPT ![t] = "idle"]
  /\ arg' = [arg EXCEPT ![t] = <<>>]
  /\ result' = [result EXCEPT ![t] = NoResult]
  /\ UNCHANGED <<frame, appVars>>

NextCalls ==
  \E t \in Threads :
    \/ \E text_input \in CallTexts : Call(t, text_input)
    \/ Iterate(t)
    \/ Finish(t)
    \/ Collect(t)

SpecCalls == Init /\ [][NextCalls]_vars

\* one caller alone, call after call
NextOne ==
  \/ \E text_input \in CallTexts : Call(1, text_input)
  \/ Iterate(1)
  \/ Finish(1)
  \/ Collect(1)

SpecOne == Init /\ [][NextOne]_vars

\* a call that is running keeps running: the interpreter executes the next statement of the
\* function it is in
FairSpecOne == SpecOne /\ WF_vars(Iterate(1)) /\ WF_vars(Finish(1))


(***************************************************************************)
(* db_manager.insert_analysis                                              *)
(***************************************************************************)

\* the characters line 102 removes
NullByte == "U+0000"

ByteOrderMark == "U+FEFF"

\* lines 98-104, for a str
sanitize_text(text) ==
  IF text = <<>> THEN <<>>
  ELSE Utf8RoundTrip(SelectSeq(text, LAMBDA c : c \notin {NullByte, ByteOrderMark}), "replace").value

\* what the database server does during one call of insert_analysis: everything succeeds,
\* psycopg2.connect fails (get_db_connection raises ConnectionError), the INSERT fails, the
\* commit fails, or the commit succeeds and closing the cursor or the connection fails
DbOutcomes == {"ok", "connect_fails", "execute_fails", "commit_fails", "close_fails"}

\* the transaction of lines 112-116 was committed
Committed(db) == db \in {"ok", "close_fails"}

\* lines 93-126, table being the rows of insights before the call and db what the server does:
\* whether the call raised, the value it returned, and the rows of insights after it.
\* sentimiento and emocion are labels none of whose characters sanitize_text changes.
insert_analysis(comentario, sentimiento, emocion, intensidad, confianza, db, table) ==
  IF ~DB_AVAILABLE
    THEN [raised |-> FALSE, value |-> TRUE, insights |-> table]
    ELSE LET row == <<sanitize_text(comentario), sentimiento, emocion, intensidad, confianza>>
         IN  [raised   |-> FALSE,
              value    |-> (db = "ok"),
              insights |-> IF Committed(db) THEN Append(table, row) ELSE table]

(***************************************************************************)
(* app: ConnectionManager.broadcast, POST /analyze, POST /api/analyze      *)
(***************************************************************************)

\* app.py line 124
MAX_RECENT_ANALYSES == 1000

\* list.remove(x) for an x that is in the list: the first occurrence goes
Remove(list, x) ==
  LET k == CHOOSE i \in 1..Len(list) : list[i] = x /\ \A j \in 1..(i - 1) : list[j] # x
  IN  SubSeq(list, 1, k - 1) \o SubSeq(list, k + 1, Len(list))

\* lines 35-40: the for loop reads the list by a 0-based index i that grows by one per
\* iteration; a connection whose send_json raises is removed from the list while the loop runs
RECURSIVE BroadcastFrom(_, _, _)
BroadcastFrom(connections, bad, i) ==
  IF i >= Len(connections) THEN connections
  ELSE LET connection == connections[i + 1]
       IN  IF connection \in bad
             THEN BroadcastFrom(Remove(connections, connection), bad, i + 1)
             ELSE BroadcastFrom(connections, bad, i + 1)

\* lines 34-40: active_connections after manager.broadcast(message)
broadcast(connections, bad) == BroadcastFrom(connections, bad, 0)

\* lines 35-37: the connections whose send_json the loop calls, from the iterator index i on
RECURSIVE SentFrom(_, _, _)
SentFrom(connections, bad, i) ==
  IF i >= Len(connections) THEN {}
  ELSE LET connection == connections[i + 1]
       IN  {connection} \cup
           SentFrom(IF connection \in bad THEN Remove(connections, connection) ELSE connections,
                    bad, i + 1)

\* text.split('\n'): where a run of characters other than '\n' begins and ends
LineStarts(s) == { i \in 1..Len(s) : s[i] # "\n" /\ (i = 1 \/ s[i - 1] = "\n") }

LineEnds(s) == { i \in 1..Len(s) : s[i] # "\n" /\ (i = Len(s) \/ s[i + 1] = "\n") }

\* lines 515 and 565: [line.strip() for line in text.split('\n') if line.strip()]
StrippedLines(s) ==
  LET starts == LineStarts(s)
      ends   == LineEnds(s)
      runs   == [k \in 1..Cardinality(starts) |-> Strip(SubSeq(s, Nth(starts, k), Nth(ends, k)))]
  IN  SelectSeq(runs, LAMBDA line : line # <<>>)

\* "a, b, c, d, e = value": the assignment raises ValueError unless value has exactly n items
UnpackRaises(value, n) == Len(value) # n

\* lines 610-619 for one line, table being the rows of insights before: the ways the try block
\* can end, one for each thing the server of the database may do if insert_analysis is
\* reached; each says whether the block raised, the entry appended to results, and the rows
\* of insights afterwards
AnalyzeLine(line, table) ==
  LET sanitized == Utf8RoundTrip(line, "replace").value
      r         == analyze_text(sanitized)
  IN  IF r.raised \/ UnpackRaises(r.value, 5)
        THEN { [raised |-> TRUE, entry |-> <<>>, table |-> table] }
        ELSE { LET v   == r.value
                   ins == insert_analysis(v[1], v[2], v[3], v[4], v[5], db, table)
               IN  [raised |-> ins.raised, entry |-> SubSeq(v, 1, 5), table |-> ins.insights] :
               db \in DbOutcomes }

\* lines 595-628: the ways the loop can end from the i-th line on, s holding results, the rows
\* of insights and active_connections; a line whose try block raises is skipped
RECURSIVE AnalyzeLines(_, _, _)
AnalyzeLines(lines, i, s) ==
  IF i > Len(lines) THEN {s}
  ELSE LET connections == broadcast(s.connections, broken)
       IN  UNION { AnalyzeLines(lines, i + 1,
                     [results     |-> IF a.raised THEN s.results ELSE Append(s.results, a.entry),
                      table       |-> a.table,
                      connections |-> connections]) :
                   a \in AnalyzeLine(lines[i], s.table) }

\* lines 651-664
StoreRecent(recent, results, current_time) ==
  LET all == recent \o [k \in 1..Len(results) |-> Append(results[k], current_time)]
  IN  IF Len(all) > MAX_RECENT_ANALYSES
        THEN SubSeq(all, Len(all) - MAX_RECENT_ANALYSES + 1, Len(all))
        ELSE all

\* what a request to POST /analyze carries: text_input (the empty str standing for an absent one
\* too: line 510 treats them alike), and, when a URL or a file is given, what
\* extract_text_from_url or process_file makes of it
NoSource == [given |-> FALSE, fails |-> FALSE, lines |-> <<>>]

\* lines 507-577: the lines to analyse, or the status 400
LinesOf(text_input, source) ==
  IF text_input # <<>> /\ Strip(text_input) # <<>>
    THEN [status |-> 0, lines |-> StrippedLines(Utf8RoundTrip(text_input, "replace").value)]
  ELSE IF ~source.given \/ source.fails THEN [status |-> 400, lines |-> <<>>]
  ELSE IF source.lines = <<>> THEN [status |-> 400, lines |-> <<>>]
  ELSE [status |-> 0, lines |-> source.lines]

\* the success status of line 693
Completed == "Análisis completado exitosamente."

\* the detail of the HTTPException of line 642
NothingAnalyzed == "No se pudieron analizar las líneas proporcionadas"

(***************************************************************************)
(* The application: requests served one after the other.                   *)
(***************************************************************************)

\* rows of insights the model lets the table grow to
MaxRows == 2

\* dashboard WebSockets
Connections == {1, 2}

\* texts clients post: one line, two lines, a line too short to score, a blank line between
\* two lines, a lone surrogate
RequestTexts ==
  { bueno,
    <<"n","o">>,
    <<"n","o"," ">> \o malo \o <<"\n">> \o bueno,
    <<" ">> \o bueno \o <<"\n"," ","\n">> \o <<Surrogate>> \o malo }

\* what a URL or a file yields: an error, no line, or lines
Sources ==
  { NoSource,
    [given |-> TRUE, fails |-> TRUE, lines |-> <<>>],
    [given |-> TRUE, fails |-> FALSE, lines |-> <<>>],
    [given |-> TRUE, fails |-> FALSE, lines |-> <<malo, bueno>>] }

\* texts whose analysis a caller hands to insert_analysis
RowTexts == { <<NullByte>> \o malo, <<"n","o">> }

\* api_key values of POST /api/analyze
ApiKeys == { None, Some("sentiment-api-key"), Some("other") }

unchangedCalls == <<pc, arg, frame, result, last, modelVars>>

\* the application after import: app.py line 112 has run ensure_postgresql_running, which left
\* DB_AVAILABLE True if initialize_db reached the server and False if not
InitApp ==
  /\ pc = [t \in Threads |-> "idle"]
  /\ arg = [t \in Threads |-> <<>>]
  /\ frame = [t \in Threads |-> NoFrame]
  /\ result = [t \in Threads |-> NoResult]
  /\ last = [t \in Threads |-> NoCall]
  /\ DB_AVAILABLE \in BOOLEAN
  /\ AppInit
  /\ ModelInit

\* a call of db_manager.insert_analysis with the first five components of an analysis
InsertAnalysis ==
  /\ Len(insights) < MaxRows
  /\ \E text_input \in RowTexts, db \in DbOutcomes :
       LET v == analyze_text(text_input).value
           r == insert_analysis(v[1], v[2], v[3], v[4], v[5], db, insights)
       IN  /\ insights' = r.insights
           /\ response' = [op |-> "insert_analysis", raised |-> r.raised, value |-> r.value,
                           db |-> db, rows_before |-> Len(insights)]
  /\ UNCHANGED <<DB_AVAILABLE, active_connections, broken, recent_analyses, last_results, last_status, last_pdf, last_analysis_time>>
  /\ UNCHANGED unchangedCalls

\* readings of the clock, in minutes (datetime.now() at lines 332 and 649)
Times == {0, 3, 9}

\* POST /analyze, lines 496-707, for a text_input and what a URL or file given with it yields
PostAnalyze(text_input, source) ==
  LET given == LinesOf(text_input, source)
      lines == given.lines
  IN
  /\ Len(insights) + Len(lines) <= MaxRows
  /\ UNCHANGED <<DB_AVAILABLE, broken>>
  /\ UNCHANGED unchangedCalls
  /\ IF given.status = 400
       THEN /\ response' = [op |-> "analyze", status |-> 400, detail |-> "", lines |-> lines,
                            results |-> <<>>]
            /\ UNCHANGED <<insights, active_connections, recent_analyses, last_results, last_status, last_pdf, last_analysis_time>>
       ELSE LET s0 == [results |-> <<>>, table |-> insights,
                       connections |-> broadcast(active_connections, broken)]
            IN  \E s1 \in AnalyzeLines(lines, 1, s0) :
                  LET results == s1.results
                      after   == broadcast(s1.connections, broken)
                  IN  /\ insights' = s1.table
                      /\ IF results = <<>>
                           THEN /\ response' = [op |-> "analyze", status |-> 500,
                                                detail |-> NothingAnalyzed, lines |-> lines,
                                                results |-> results,
                                                connections |-> active_connections,
                                                failing |-> broken,
                                                sent |-> SentFrom(active_connections, broken, 0),
                                                after |-> s0.connections]
                                /\ active_connections' = after
                                /\ UNCHANGED <<recent_analyses, last_results, last_status, last_pdf, last_analysis_time>>
                           ELSE \E current_time \in Times, pdf_file \in {None, Some("report.pdf")} :
                                  /\ recent_analyses' =
                                       StoreRecent(recent_analyses, results, current_time)
                                  /\ last_status' = Some(Completed)
                                  /\ last_results' = Some(results)
                                  /\ last_pdf' = pdf_file
                                  /\ last_analysis_time' = Some(current_time)
                                  /\ active_connections' = broadcast(after, broken)
                                  /\ response' = [op |-> "analyze", status |-> 200,
                                                  detail |-> Completed, lines |-> lines,
                                                  results |-> results,
                                                  connections |-> active_connections,
                                                  failing |-> broken,
                                                  sent |-> SentFrom(active_connections, broken, 0),
                                                  after |-> s0.connections]

\* what clients post: a text, or no text (or a blank one) and a URL or a file, or nothing
Requests ==
  { <<text_input, NoSource>> : text_input \in RequestTexts }
    \cup { <<text_input, source>> : text_input \in {<<>>, <<" ">>}, source \in Sources }

Analyze_request == \E request \in Requests : PostAnalyze(request[1], request[2])

\* POST /api/analyze, lines 709-729
ApiAnalyze ==
  /\ \E text \in RequestTexts, api_key \in ApiKeys :
       IF api_key # Some("sentiment-api-key")
         THEN response' = [op |-> "api_analyze", status |-> 401, text |-> text, body |-> <<>>]
         ELSE LET r == analyze_text(Strip(text))
              IN  IF r.raised \/ UnpackRaises(r.value, 5)
                    THEN response' = [op |-> "api_analyze", status |-> 500, text |-> text,
                                      body |-> <<>>]
                    ELSE response' = [op |-> "api_analyze", status |-> 200, text |-> text,
                                      body |-> SubSeq(r.value, 1, 5)]
  /\ UNCHANGED <<DB_AVAILABLE, insights, active_connections, broken, recent_analyses, last_results, last_status, last_pdf, last_analysis_time>>
  /\ UNCHANGED unchangedCalls

\* ConnectionManager.connect, lines 27-29: a dashboard opens its WebSocket
WsConnect ==
  /\ \E websocket \in Connections \ Range(active_connections) :
       /\ websocket \notin broken
       /\ active_connections' = Append(active_connections, websocket)
  /\ UNCHANGED <<DB_AVAILABLE, insights, broken, recent_analyses, last_results, last_status, last_pdf, last_analysis_time, response>>
  /\ UNCHANGED unchangedCalls

\* the peer of a connected WebSocket goes away: send_json on it raises from now on
WsBreak ==
  /\ \E websocket \in Range(active_connections) \ broken : broken' = broken \cup {websocket}
  /\ UNCHANGED <<DB_AVAILABLE, insights, active_connections, recent_analyses, last_results, last_status, last_pdf, last_analysis_time, response>>
  /\ UNCHANGED unchangedCalls

\* lines 855-857: receive_json raises WebSocketDisconnect in the handler of a dashboard whose
\* peer went away, and the handler calls manager.disconnect(websocket), whose list.remove
\* raises ValueError if a broadcast has removed the connection already
WsDisconnect ==
  /\ \E websocket \in broken :
       /\ broken' = broken \ {websocket}
       /\ IF websocket \in Range(active_connections)
            THEN /\ active_connections' = Remove(active_connections, websocket)
                 /\ response' = [op |-> "disconnect", websocket |-> websocket, raised |-> FALSE]
            ELSE /\ active_connections' = active_connections
                 /\ response' = [op |-> "disconnect", websocket |-> websocket, raised |-> TRUE]
  /\ UNCHANGED <<DB_AVAILABLE, insights, recent_analyses, last_results, last_status, last_pdf, last_analysis_time>>
  /\ UNCHANGED unchangedCalls

\* line 333: timedelta(minutes=5)
Expiry == 5

\* GET /demo, lines 325-356: what the page is given to show, and the reset of lines 345-348
GetDemo ==
  /\ \E current_time \in Times :
       LET expired == last_analysis_time # None /\ current_time - last_analysis_time[1] > Expiry
       IN  response' = [op |-> "demo",
                        status |-> IF expired THEN None ELSE last_status,
                        results |-> IF expired THEN None ELSE last_results,
                        pdf_file |-> IF expired THEN None ELSE last_pdf]
  /\ last_results' = None
  /\ last_status' = None
  /\ last_pdf' = None
  /\ last_analysis_time' = None
  /\ UNCHANGED <<DB_AVAILABLE, insights, active_connections, broken, recent_analyses>>
  /\ UNCHANGED unchangedCalls

\* POST /clear_results, lines 783-791
ClearResults ==
  /\ last_results' = None
  /\ last_status' = None
  /\ last_pdf' = None
  /\ last_analysis_time' = None
  /\ response' = [op |-> "clear_results"]
  /\ UNCHANGED <<DB_AVAILABLE, insights, active_connections, broken, recent_analyses>>
  /\ UNCHANGED unchangedCalls

NextApp == InsertAnalysis \/ Analyze_request \/ ApiAnalyze \/ WsConnect \/ WsBreak \/ WsDisconnect \/ GetDemo \/ ClearResults

SpecApp == InitApp /\ [][NextApp]_vars

(***************************************************************************)
(* model_analyzer.get_model, lines 7-26, statement by statement.  A load   *)
(* attempt (lines 14-15: the import and the call of pipeline) succeeds or  *)
(* raises, as the environment decides.                                     *)
(***************************************************************************)

\* calls of get_model each caller makes
MaxCalls == 2

\* line 10 with one try more
max_retries_four == 3 + 1

\* line 10
max_retries == 3

\* line 21 starting from 2 seconds
backoff_time_from_two(attempt) == 2 ^ (attempt + 1)

\* line 21: backoff_time = 2 ** attempt
backoff_time(attempt) == 2 ^ attempt

\* the other state of the module and of the application
unchangedByGetModel == <<pc, arg, frame, result, last, DB_AVAILABLE, insights, active_connections, broken, recent_analyses, last_results, last_status, last_pdf, last_analysis_time, response>>

\* the caller is not inside get_model
Outside(t) == loader[t].pc \in {"idle", "returned", "raised"}

\* a caller calls get_model()
GetModelCall(t) ==
  /\ Outside(t)
  /\ loader[t].calls < MaxCalls
  /\ loader' = [loader EXCEPT ![t] = [NoLoader EXCEPT !.pc = "test", !.calls = loader[t].calls + 1]]
  /\ UNCHANGED <<model, constructed>>
  /\ UNCHANGED unchangedByGetModel

\* line 9: if model is None
TestModel(t) ==
  /\ loader[t].pc = "test"
  /\ loader' = [loader EXCEPT ![t].found = model,
                              ![t].pc = IF model = None THEN "load" ELSE "return"]
  /\ UNCHANGED <<model, constructed>>
  /\ UNCHANGED unchangedByGetModel

\* lines 14-17: the attempt succeeds, model is bound to the new pipeline object, break
LoadSucceeds(t) ==
  /\ loader[t].pc = "load"
  /\ constructed' = constructed + 1
  /\ model' = Some(constructed + 1)
  /\ loader' = [loader EXCEPT ![t].attempts = @ + 1, ![t].loads = @ + 1, ![t].pc = "return"]
  /\ UNCHANGED unchangedByGetModel

\* lines 18-25: the attempt raises; retry after a wait, or raise RuntimeError after the last
LoadFails(t) ==
  /\ loader[t].pc = "load"
  /\ loader' = [loader EXCEPT ![t].attempts = @ + 1,
                              ![t].pc = IF loader[t].attempt < max_retries - 1
                                          THEN "sleep" ELSE "raised"]
  /\ UNCHANGED <<model, constructed>>
  /\ UNCHANGED unchangedByGetModel

\* lines 21-23 and the next iteration of the for loop: time.sleep(backoff_time)
Sleep(t) ==
  /\ loader[t].pc = "sleep"
  /\ loader' = [loader EXCEPT ![t].waits = Append(@, backoff_time(loader[t].attempt)),
                              ![t].attempt = @ + 1,
                              ![t].pc = "load"]
  /\ UNCHANGED <<model, constructed>>
  /\ UNCHANGED unchangedByGetModel

\* line 26: return model
ReturnModel(t) ==
  /\ loader[t].pc = "return"
  /\ loader' = [loader EXCEPT ![t].returned = model, ![t].pc = "returned"]
  /\ UNCHANGED <<model, constructed>>
  /\ UNCHANGED unchangedByGetModel

\* a step inside get_model
GetModelStep(t) == TestModel(t) \/ LoadSucceeds(t) \/ LoadFails(t) \/ Sleep(t) \/ ReturnModel(t)

\* a call made while no other caller is inside get_model
CallAlone(t) == (\A u \in Threads \ {t} : Outside(u)) /\ GetModelCall(t)

\* calls of get_model one after the other
NextGetModel == \E t \in Threads : CallAlone(t) \/ GetModelStep(t)

SpecGetModel == Init /\ [][NextGetModel]_vars

\* calls of get_model from two threads, interleaved at every statement
NextGetModelCalls == \E t \in Threads : GetModelCall(t) \/ GetModelStep(t)

SpecGetModelCalls == Init /\ [][NextGetModelCalls]_vars

(***************************************************************************)
(* Properties                                                              *)
(***************************************************************************)

\* whitespace tokens of the trimmed, lowercased text
TokensOf(text_input) == Split(Lower(Strip(text_input)))

IsTooShortTuple(v) ==
  /\ v[2] = "NEUTRAL" /\ v[3] = "VACÍO" /\ v[4] = 0 /\ v[5] = 0
  /\ v[6] = <<Part("too_short", "", <<>>, 0, 0)>>

\* C1: analyze_text returns (NEUTRAL, VACÍO, 0.0, 0.0, the "too short" explanation) exactly when
\* the text, trimmed, lowercased, with URLs and then the characters outside \w \s ¡!¿?., removed,
\* has fewer than 3 characters after trimming.  Every input whose trimmed length is below 3 is
\* such a text, and no other input gets the emotion VACÍO.
C1_ShortCircuitExactlyWhenTooShort ==
  \A t \in Threads :
    pc[t] = "done" =>
      LET cleaned == RemovePunctuation(RemoveUrls(Lower(Strip(arg[t]))))
          short   == Len(Strip(cleaned)) < 3
          v       == result[t].value
      IN  /\ ~result[t].raised
          /\ short <=> IsTooShortTuple(v)
          /\ Len(Strip(arg[t])) < 3 => IsTooShortTuple(v)
          /\ v[3] = "VACÍO" => short

\* a text of three characters or more that is too short only once cleaned (a URL, "#no")
C1_Witness ==
  \E t \in Threads :
    /\ pc[t] = "done"
    /\ Len(Strip(arg[t])) >= 3
    /\ IsTooShortTuple(result[t].value)

\* C2: the intensity and the confidence analyze_text returns lie in [0.0, 1.0] for every input.
C2_IntensityAndConfidenceInUnitInterval ==
  \A t \in Threads :
    pc[t] = "done" =>
      /\ result[t].value[4] \in 0..1000
      /\ result[t].value[5] \in 0..1000

\* a call where confidence times the multiplier exceeds 1 and line 135 cut it to 1.0
C2_Witness ==
  \E t \in Threads :
    /\ pc[t] = "done" /\ frame[LocalsOf(t)].entered
    /\ LET v == result[t].value
           m == intensity_multiplier(frame[LocalsOf(t)].cleaned_text, v[2])
       IN  v[5] * m[1] > 1000 * m[2] /\ v[4] = 1000

\* C3: every call of analyze_text, whatever the string, finishes, raises nothing and hands back
\* the 6-tuple (original_text, sentiment, emotion, intensity, confidence, explanation).
C3_AlwaysReturnsATuple ==
  /\ [](\A t \in Threads :
          /\ ~result[t].raised
          /\ ~frame[LocalsOf(t)].raised
          /\ pc[t] = "done" => Len(result[t].value) = 6)
  /\ \A t \in Threads : (pc[t] = "loop") ~> (pc[t] = "done")

\* a text holding a lone surrogate went through the encode of line 143 and the loop, and returned
C3_Witness ==
  \E t \in Threads :
    /\ pc[t] = "done"
    /\ Surrogate \in Range(arg[t])
    /\ frame[LocalsOf(t)].entered
    /\ Len(result[t].value) = 6

\* C4: two calls with the same string return the same tuple, whatever calls were made before
\* or in between, by the same caller or by another one.
C4_SameTextSameTuple ==
  \A t, u \in Threads :
    pc[t] = "done" =>
      /\ (last[u].called /\ last[u].arg = arg[t]) => result[t] = last[u].result
      /\ (pc[u] = "done" /\ arg[u] = arg[t]) => result[t] = result[u]

\* a caller repeats, after a call that reached the loop, the text of that call, while the other
\* caller has analysed a different text
C4_Witness ==
  \E t, u \in Threads :
    /\ t # u
    /\ pc[t] = "done" /\ frame[LocalsOf(t)].entered
    /\ last[t].called /\ last[t].arg = arg[t]
    /\ last[u].called /\ last[u].arg # arg[t]

\* C5: under every interleaving of the steps of two calls, each call returns the tuple the same
\* call returns when it runs alone.
C5_InterleavedCallsDoNotInterfere ==
  \A t \in Threads :
    pc[t] = "done" => result[t] = analyze_text(arg[t])

\* one call returned while the other was in the middle of its loop
C5_Witness ==
  \E t, u \in Threads :
    /\ t # u
    /\ pc[t] = "done" /\ frame[LocalsOf(t)].entered
    /\ pc[u] = "loop" /\ frame[LocalsOf(u)].i > 1 /\ ~LoopDone(frame[LocalsOf(u)])

\* C6: the sentiment is POSITIVO, NEGATIVO or NEUTRAL, and the emotion is VACÍO or the entry of
\* the table for the returned sentiment and intensity.
C6_EmotionIsTheTableEntry ==
  \A t \in Threads :
    pc[t] = "done" =>
      LET v == result[t].value
          s == v[2]
          x == v[4]
      IN  /\ s \in {"POSITIVO", "NEGATIVO", "NEUTRAL"}
          /\ \/ v[3] = "VACÍO"
             \/ /\ s = "POSITIVO"
                /\ v[3] = (IF x > 700 THEN "Alegría Extrema"
                           ELSE IF x > 500 THEN "Alegría" ELSE "Satisfacción")
             \/ /\ s = "NEGATIVO"
                /\ v[3] = (IF x > 700 THEN "Ira Extrema"
                           ELSE IF x > 500 THEN "Enojo/Frustración" ELSE "Descontento")
             \/ /\ s = "NEUTRAL"
                /\ v[3] = (IF x > 600 THEN "Sorpresa"
                           ELSE IF x > 400 THEN "Indiferencia" ELSE "NEUTRALIDAD")

\* a NEUTRAL result in the band 0.4 < intensity <= 0.5, where the bands of NEUTRAL differ from
\* those of the other two sentiments
C6_Witness ==
  \E t \in Threads :
    /\ pc[t] = "done"
    /\ result[t].value[2] = "NEUTRAL"
    /\ result[t].value[3] = "Indiferencia"
    /\ result[t].value[4] <= 500

\* C7: for a call that is not short-circuited, with total_score = positive_count -
\* negative_count: above 0.5 the result is POSITIVO with confidence min(0.5 + 0.1 total, 0.95),
\* below -0.5 NEGATIVO with min(0.5 + 0.1 |total|, 0.95), and anything else, 0.5 and -0.5
\* included, NEUTRAL with confidence 0.5; a text with no lexicon token is NEUTRAL at 0.5.
C7_ClassificationByTotalScore ==
  \A t \in Threads :
    (pc[t] = "done" /\ frame[LocalsOf(t)].entered) =>
      LET f     == frame[LocalsOf(t)]
          total == f.positive_count - f.negative_count
          v     == result[t].value
          capped(c) == IF c > 950 THEN 950 ELSE c
      IN  /\ total > 2 => (v[2] = "POSITIVO" /\ v[5] = capped(500 + 25 * total))
          /\ total < -2 => (v[2] = "NEGATIVO" /\ v[5] = capped(500 - 25 * total))
          /\ (total >= -2 /\ total <= 2) => (v[2] = "NEUTRAL" /\ v[5] = 500)
          /\ (\A i \in 1..Len(f.words) : f.words[i] \notin positive_words \cup negative_words)
               => (v[2] = "NEUTRAL" /\ v[5] = 500)

\* a total of exactly 0.5 (a negated negative word) classified NEUTRAL
C7_Witness ==
  \E t \in Threads :
    /\ pc[t] = "done" /\ frame[LocalsOf(t)].entered
    /\ frame[LocalsOf(t)].positive_count - frame[LocalsOf(t)].negative_count = 2
    /\ result[t].value[2] = "NEUTRAL"

\* C8: a text with a positive-lexicon token, no negative-lexicon token and no negation token is
\* POSITIVO with confidence >= 0.5 and an emotion among Satisfacción, Alegría, Alegría Extrema;
\* a text with a negative-lexicon token, no positive-lexicon token and no negation token is
\* NEGATIVO with confidence >= 0.5.
C8_OneSidedTextsGetTheirPolarity ==
  \A t \in Threads :
    pc[t] = "done" =>
      LET ws  == Range(TokensOf(arg[t]))
          v   == result[t].value
      IN  /\ (ws \cap positive_words # {} /\ ws \cap negative_words = {} /\ ws \cap negations = {})
               => /\ v[2] = "POSITIVO"
                  /\ v[5] >= 500
                  /\ v[3] \in {"Satisfacción", "Alegría", "Alegría Extrema"}
          /\ (ws \cap negative_words # {} /\ ws \cap positive_words = {} /\ ws \cap negations = {})
               => (v[2] = "NEGATIVO" /\ v[5] >= 500)

\* a text whose one lexicon word is positive and follows an intensifier
C8_Witness ==
  \E t \in Threads :
    /\ pc[t] = "done"
    /\ TokensOf(arg[t]) = << <<"m","u","y">>, bueno >>
    /\ result[t].value[2] = "POSITIVO"

\* positions of the words of lex, split by the word before them
After(words, lex, mods) ==
  { i \in 1..Len(words) : words[i] \in lex /\ i > 1 /\ words[i - 1] \in mods }

Plain(words, lex) ==
  { i \in 1..Len(words) :
      words[i] \in lex /\ (i = 1 \/ words[i - 1] \notin negations \cup intensifiers) }

\* C9: a positive word right after a negation word adds -0.5 to positive_count where it would
\* have added 1 (1.5 after an intensifier), and nothing to negative_count; likewise a negated
\* negative word and negative_count.  So 'no bueno' has a positive_count strictly below that of
\* 'bueno' and a negative_count of 0.
C9_NegatedWordIsDampened ==
  \A t \in Threads :
    (pc[t] = "done" /\ frame[LocalsOf(t)].entered) =>
      LET f == frame[LocalsOf(t)]
          w == f.words
      IN  /\ f.positive_count =
                4 * Cardinality(Plain(w, positive_words))
                + 6 * Cardinality(After(w, positive_words, intensifiers))
                - 2 * Cardinality(After(w, positive_words, negations))
          /\ f.negative_count =
                4 * Cardinality(Plain(w, negative_words))
                + 6 * Cardinality(After(w, negative_words, intensifiers))
                - 2 * Cardinality(After(w, negative_words, negations))
          /\ (Len(w) = 2 /\ w[1] \in negations /\ w[2] \in positive_words) =>
                /\ f.positive_count = -2
                /\ f.positive_count < LocalsAtReturn(w[2]).positive_count
                /\ f.negative_count = 0

\* the call for 'no bueno'
C9_Witness ==
  \E t \in Threads :
    /\ pc[t] = "done" /\ frame[LocalsOf(t)].entered
    /\ frame[LocalsOf(t)].words = << <<"n","o">>, bueno >>
    /\ frame[LocalsOf(t)].positive_count = -2

Rank(sentiment) ==
  IF sentiment = "NEGATIVO" THEN 0 ELSE IF sentiment = "NEUTRAL" THEN 1 ELSE 2

\* the second call analyses the text of the first with the positive word w, not in that text,
\* appended after a last token that is no negation word
AppendedPositive(w) ==
  /\ pc[1] = "done" /\ pc[2] = "done"
  /\ arg[2] = arg[1] \o <<" ">> \o w
  /\ w \in positive_words
  /\ w \notin Range(TokensOf(arg[1]))
  /\ LET T == TokensOf(arg[1]) IN T = <<>> \/ T[Len(T)] \notin negations

\* C10: appending to a text whose last token is no negation word a positive word it does not
\* hold leaves negative_count unchanged, does not decrease positive_count, and the sentiment of
\* the longer text is not nearer NEGATIVO (NEGATIVO < NEUTRAL < POSITIVO) than that of the text.
C10_AppendingAPositiveWordIsMonotone ==
  \A w \in FollowUps :
    AppendedPositive(w) =>
      /\ Rank(result[2].value[2]) >= Rank(result[1].value[2])
      /\ frame[LocalsOf(2)].entered
      /\ frame[LocalsOf(1)].entered =>
           /\ frame[LocalsOf(2)].negative_count = frame[LocalsOf(1)].negative_count
           /\ frame[LocalsOf(2)].positive_count >= frame[LocalsOf(1)].positive_count

\* a NEGATIVO text and the call for that text with a positive word appended, which is NEUTRAL
C10_Witness ==
  \E w \in FollowUps :
    /\ AppendedPositive(w)
    /\ result[1].value[2] = "NEGATIVO"
    /\ result[2].value[2] = "NEUTRAL"
    /\ frame[LocalsOf(2)].positive_count > frame[LocalsOf(1)].positive_count

\* the text with '?' in the place of every lone surrogate, every other character as it is
SurrogatesReplaced(s) == [i \in 1..Len(s) |-> IF s[i] = Surrogate THEN "?" ELSE s[i]]

AnalysisOf(line) == SubSeq(analyze_text(Utf8RoundTrip(line, "replace").value).value, 1, 5)

\* C12: storage failure never aborts analysis: insert_analysis never raises, it returns a
\* boolean whether the database is flagged unavailable, the connection fails or the INSERT
\* fails, and POST /analyze records the analysis result of every line whatever insert_analysis
\* returns.
C12_StorageFailureNeverAbortsAnalysis ==
  /\ response.op = "insert_analysis" => ~response.raised /\ response.value \in BOOLEAN
  /\ response.op = "analyze" /\ response.status # 400 =>
       /\ Len(response.results) = Len(response.lines)
       /\ \A k \in 1..Len(response.lines) : response.results[k] = AnalysisOf(response.lines[k])

\* C13: insert_analysis returns True if and only if the row was inserted into the table
\* insights, and False in every other case.
C13_TrueIffRowInserted ==
  response.op = "insert_analysis" =>
    /\ ~response.raised
    /\ response.value = TRUE <=> Len(insights) = response.rows_before + 1
    /\ response.value = FALSE <=> Len(insights) = response.rows_before

\* C14: every caller consumes the tuple analyze_text returns: POST /analyze with at least one
\* line ends with the success status, one entry of results per line and one record of
\* recent_analyses per line, never with the status 500; POST /api/analyze with a valid key
\* returns the fields of the analysis.
C14_EveryCallerConsumesTheTuple ==
  /\ response.op = "analyze" /\ response.status # 400 =>
       /\ response.status = 200
       /\ response.detail = Completed
       /\ Len(response.results) = Len(response.lines)
       /\ Len(recent_analyses) >= Len(response.lines)
       /\ \A k \in 1..Len(response.lines) :
            SubSeq(recent_analyses[Len(recent_analyses) - Len(response.lines) + k], 1, 5)
              = AnalysisOf(response.lines[k])
  /\ response.op = "api_analyze" /\ response.status # 401 =>
       /\ response.status = 200
       /\ response.body = SubSeq(analyze_text(Strip(response.text)).value, 1, 5)

\* the locals the scorer would end with on the words of the preprocessor's cleaned_text
ScoredFromCleaned(text_input) == RunLoop(EnterFallback(Preprocess(text_input), Accumulators0))

\* C15: the lexical scorer tokenizes the preprocessor's cleaned_text: for every input that is
\* scored, positive_count, negative_count, the found-word lists and the sentiment are those
\* obtained from the text after lowercasing, removing URLs and removing every character
\* outside \w, \s and ¡!¿?., (so a lexicon word with a stripped character attached matches).
C15_ScorerTokenizesCleanedText ==
  \A t \in Threads :
    pc[t] = "done" /\ ~result[t].raised /\ result[t].value[3] # "VACÍO" =>
      LET f == frame[LocalsOf(t)]
          g == ScoredFromCleaned(arg[t])
      IN  /\ f.positive_count = g.positive_count
          /\ f.negative_count = g.negative_count
          /\ f.found_positive_words = g.found_positive_words
          /\ f.found_negative_words = g.found_negative_words
          /\ result[t].value[2] = Classify(g.positive_count - g.negative_count).sentimiento

\* sentiment, emotion, intensity and confidence of a returned tuple
Verdict(v) == SubSeq(v, 2, 5)

\* the number of characters of the text that str.isupper() and that str.lower() leaves as
\* they are
CaselessUpperCount(text) == Cardinality({ i \in 1..Len(text) : text[i] \in CaselessUpper })

\* C16 as stated: the caps-ratio booster never fires through analyze_text (its factor is 1 in
\* every scored call), and inputs that differ only in letter case get the same sentiment,
\* emotion, intensity and confidence.
C16_CapsBoosterNeverFires ==
  \A t \in Threads :
    pc[t] = "done" /\ ~result[t].raised =>
      /\ Verdict(result[t].value) = Verdict(analyze_text(Lower(arg[t])).value)
      /\ frame[LocalsOf(t)].entered => CapsFactor(frame[LocalsOf(t)].cleaned_text) = <<1, 1>>

\* C16 amended: inputs that differ only in letter case (they have the same lower()) get the
\* same sentiment, emotion, intensity and confidence; the caps-ratio booster fires through
\* analyze_text exactly when more than 30% of the characters of the trimmed text are uppercase
\* letters that lower() leaves uppercase, and never on account of a letter that has a lowercase
\* form.
C16_CaseDoesNotChangeTheVerdict ==
  \A t \in Threads :
    pc[t] = "done" /\ ~result[t].raised =>
      /\ Verdict(result[t].value) = Verdict(analyze_text(Lower(arg[t])).value)
      /\ frame[LocalsOf(t)].entered =>
           LET text == frame[LocalsOf(t)].cleaned_text
           IN  CapsFactor(text) # <<1, 1>> <=> 10 * CaselessUpperCount(text) > 3 * Len(text)

\* a scored text more than 30% of whose characters are capitals that have a lowercase form,
\* and on which the booster did not fire
C16_Witness ==
  \E t \in Threads :
    /\ pc[t] = "done"
    /\ frame[LocalsOf(t)].entered
    /\ result[t].value[2] # "NEUTRAL"
    /\ 10 * Cardinality({ i \in 1..Len(arg[t]) : arg[t][i] \in Range(UpperAZ) }) > 3 * Len(arg[t])
    /\ CapsFactor(frame[LocalsOf(t)].cleaned_text) = <<1, 1>>
    /\ Verdict(result[t].value) = Verdict(analyze_text(Lower(arg[t])).value)

\* the text whose tokens and marks the intensity is computed from: the input trimmed and
\* lowercased, as the scorer sees it
Scored(text_input) == Lower(Strip(SurrogatesReplaced(text_input)))

\* the product of the length, exclamation, question and sentiment multipliers of C17, as the
\* fraction <<numerator, 40000>>
StatedMultiplier(text, sentiment) ==
  LET tokens == Len(Split(text))
      e      == Count(text, "!") + Count(text, "¡")
      q      == Count(text, "?") + Count(text, "¿")
      length == IF tokens > 20 THEN 11 ELSE IF tokens < 5 THEN 9 ELSE 10
      excl   == 10 + (IF e < 3 THEN e ELSE 3)
      quest  == 20 + (IF q < 4 THEN q ELSE 4)
      sent   == IF sentiment = "NEGATIVO" THEN 22 ELSE IF sentiment = "POSITIVO" THEN 21 ELSE 20
  IN  <<length * excl * quest * sent, 10 * 10 * 20 * 20>>

\* 1 + min(0.5 * r, 0.4) when the ratio r of uppercase characters exceeds 0.3, else 1: the
\* fraction <<numerator, denominator>>
StatedCapsMultiplier(text) ==
  LET u == Cardinality({ i \in 1..Len(text) : text[i] \in UpperChars })
      n == Len(text)
  IN  IF 10 * u <= 3 * n THEN <<1, 1>>
      ELSE IF 5 * u >= 4 * n THEN <<14, 10>>
      ELSE <<2 * n + u, 2 * n>>

\* intensity (in thousandths) is min(confidence * m, 1.0) rounded to 3 decimals, m being the
\* fraction <<m[1], m[2]>> with m[2] a multiple of 25: it is a thousandth nearest to the product
IsRoundedProduct(intensity, confidence, m) ==
  LET n == (confidence \div 25) * m[1]
      d == m[2] \div 25
      x == IF n >= 1000 * d THEN 1000 * d ELSE n
      diff == IF intensity * d >= x THEN intensity * d - x ELSE x - intensity * d
  IN  2 * diff <= d

\* C17 as stated: for every non-short-circuit input, intensity = min(confidence * m, 1.0)
\* rounded to 3 decimals, m being the product of the length multiplier (1.1 above 20 tokens,
\* 0.9 below 5), 1 + min(0.1 e, 0.3), 1 + min(0.05 q, 0.2) and the sentiment multiplier
\* (1.1 NEGATIVO, 1.05 POSITIVO, 1 NEUTRAL).
C17_IntensityIsTheStatedProduct ==
  \A t \in Threads :
    pc[t] = "done" /\ ~result[t].raised /\ result[t].value[3] # "VACÍO" =>
      LET v == result[t].value
      IN  IsRoundedProduct(v[4], v[5], StatedMultiplier(Scored(arg[t]), v[2]))

\* C17 amended: for every non-short-circuit input, intensity = min(confidence * m, 1.0)
\* rounded to 3 decimals, m being the product of the four multipliers above and of
\* 1 + min(0.5 r, 0.4) when the ratio r of uppercase characters in the trimmed, lowercased text
\* exceeds 0.3 (which letters without a lowercase form make possible).
C17_IntensityIsTheProductWithCaps ==
  \A t \in Threads :
    pc[t] = "done" /\ ~result[t].raised /\ result[t].value[3] # "VACÍO" =>
      LET v    == result[t].value
          text == Scored(arg[t])
          m    == StatedMultiplier(text, v[2])
          c    == StatedCapsMultiplier(text)
      IN  IsRoundedProduct(v[4], v[5], <<m[1] * c[1], m[2] * c[2]>>)

\* a POSITIVO text of fewer than 5 tokens on which the caps multiplier applies and whose
\* intensity is below 1
C17_Witness ==
  \E t \in Threads :
    /\ pc[t] = "done"
    /\ result[t].value[2] = "POSITIVO"
    /\ StatedCapsMultiplier(Scored(arg[t])) # <<1, 1>>
    /\ result[t].value[4] < 1000
    /\ result[t].value[4] > result[t].value[5]

\* the last whitespace token of the text, or the empty str if it has none
LastToken(text_input) ==
  LET T == TokensOf(SurrogatesReplaced(text_input)) IN IF T = <<>> THEN <<>> ELSE T[Len(T)]

\* the contribution (in quarters) C18 gives a lexicon token by the token before it
StatedContribution(before) ==
  IF before \in negations THEN -2 ELSE IF before \in intensifiers THEN 6 ELSE 4

\* C18: the contribution of each lexicon token depends only on the token immediately before it
\* and is one of exactly three values: -0.5 after a negation word, 1.5 after an intensifier,
\* 1 otherwise (the first token included); no word is both a negation and an intensifier; a
\* modifier two or more positions back has no effect.  Stated on a text and the same text
\* with one lexicon word appended: the counts of the longer text are those of the shorter one
\* plus the contribution the last token of the shorter one gives the appended word.
C18_ContributionDependsOnThePrecedingToken ==
  /\ negations \cap intensifiers = {}
  /\ pc[1] = "done" /\ pc[2] = "done" /\ ~result[1].raised /\ ~result[2].raised =>
       LET f1 == frame[LocalsOf(1)]
           f2 == frame[LocalsOf(2)]
           T  == TokensOf(SurrogatesReplaced(arg[2]))
           w  == T[Len(T)]
           c  == StatedContribution(LastToken(arg[1]))
       IN  /\ c \in {-2, 4, 6}
           /\ w \in positive_words =>
                /\ f2.positive_count = f1.positive_count + c
                /\ f2.negative_count = f1.negative_count
           /\ w \in negative_words /\ w \notin positive_words =>
                /\ f2.negative_count = f1.negative_count + c
                /\ f2.positive_count = f1.positive_count

\* a lexicon word appended to a text whose last token is no modifier but whose token before
\* that is one: the word counts 1
C18_Witness ==
  /\ pc[1] = "done" /\ pc[2] = "done"
  /\ LET T1 == TokensOf(arg[1])
     IN  /\ Len(T1) >= 2
         /\ T1[Len(T1) - 1] \in negations \cup intensifiers
         /\ T1[Len(T1)] \notin negations \cup intensifiers
         /\ T1[Len(T1)] \notin positive_words \cup negative_words
         /\ frame[LocalsOf(2)].positive_count + frame[LocalsOf(2)].negative_count
              = frame[LocalsOf(1)].positive_count + frame[LocalsOf(1)].negative_count + 4

\* the words of the list that are in lex, each once, in the order of their first occurrence
FirstOccurrences(words, lex) ==
  LET P == { i \in 1..Len(words) :
               words[i] \in lex /\ \A j \in 1..(i - 1) : words[j] # words[i] }
  IN  [k \in 1..Cardinality(P) |-> words[Nth(P, k)]]

NoDuplicates(list) == \A i, j \in 1..Len(list) : list[i] = list[j] => i = j

\* the number of occurrences in the list of words of lex
Occurrences(words, lex) == Cardinality({ i \in 1..Len(words) : words[i] \in lex })

\* C19: the found-positive and found-negative word lists never contain a duplicate and keep
\* first-occurrence order, while every occurrence of a lexicon word, repeated or not, adds its
\* contribution to the running count (with no modifier in the text, 1 per occurrence).
C19_FoundListsAreDeduplicated ==
  \A t \in Threads :
    pc[t] = "done" /\ frame[LocalsOf(t)].entered /\ ~frame[LocalsOf(t)].raised =>
      LET f     == frame[LocalsOf(t)]
          words == TokensOf(SurrogatesReplaced(arg[t]))
      IN  /\ NoDuplicates(f.found_positive_words)
          /\ NoDuplicates(f.found_negative_words)
          /\ f.found_positive_words = FirstOccurrences(words, positive_words)
          /\ f.found_negative_words = FirstOccurrences(words, negative_words \ positive_words)
          /\ Range(words) \cap (negations \cup intensifiers) = {} =>
               /\ f.positive_count = 4 * Occurrences(words, positive_words)
               /\ f.negative_count = 4 * Occurrences(words, negative_words \ positive_words)

\* a text with a positive word three times over and a negative word twice: each is listed
\* once and counted at every occurrence
C19_Witness ==
  \E t \in Threads :
    /\ pc[t] = "done"
    /\ Len(frame[LocalsOf(t)].found_positive_words) = 1
    /\ Len(frame[LocalsOf(t)].found_negative_words) = 1
    /\ frame[LocalsOf(t)].positive_count >= 12
    /\ frame[LocalsOf(t)].negative_count >= 8

\* the place of a kind of sentence in the order C20 gives
KindRank(kind) ==
  CASE kind = "headline" -> 1
    [] kind \in {"positive_words", "negative_words"} -> 2
    [] kind \in {"positive_score", "negative_score"} -> 3
    [] kind = "emotion" -> 4
    [] kind = "intensity" -> 5
    [] kind = "intensifiers" -> 6
    [] kind = "negations" -> 7
    [] kind = "recommendation" -> 8
    [] OTHER -> 0

\* the sentences of the explanation of the given kind
SentencesOf(explanation, kind) ==
  { i \in 1..Len(explanation) : explanation[i].kind = kind }

\* a word of the set stands before another word of the text
FollowedModifier(words, mods) == \E i \in 1..(Len(words) - 1) : words[i] \in mods

\* C20: the explanation of every non-short-circuit result is built in one fixed order:
\* headline, matched words, polarity score, emotion, intensity, intensifiers, negations,
\* recommendation; it has exactly one headline, first, and exactly one recommendation, last,
\* both for the returned sentiment, and exactly one intensity sentence, for the returned
\* intensity; the intensifier sentence is there if and only if an intensifier was found (one
\* stands before another word) and the negation sentence if and only if a negation was found.
C20_ExplanationOrderIsFixed ==
  \A t \in Threads :
    pc[t] = "done" /\ ~result[t].raised /\ result[t].value[3] # "VACÍO" =>
      LET v     == result[t].value
          e     == v[6]
          words == TokensOf(SurrogatesReplaced(arg[t]))
      IN  /\ \A i, j \in 1..Len(e) : i < j => 0 < KindRank(e[i].kind) /\ KindRank(e[i].kind) < KindRank(e[j].kind)
          /\ Cardinality(SentencesOf(e, "headline")) = 1
          /\ e[1].kind = "headline" /\ e[1].label = v[2]
          /\ Cardinality(SentencesOf(e, "recommendation")) = 1
          /\ e[Len(e)].kind = "recommendation" /\ e[Len(e)].label = v[2]
          /\ Cardinality(SentencesOf(e, "intensity")) = 1
          /\ \A i \in SentencesOf(e, "intensity") : e[i].num = v[4]
          /\ \A i \in SentencesOf(e, "positive_words") \cup SentencesOf(e, "positive_score") :
               v[2] = "POSITIVO"
          /\ \A i \in SentencesOf(e, "negative_words") \cup SentencesOf(e, "negative_score") :
               v[2] = "NEGATIVO"
          /\ SentencesOf(e, "intensifiers") # {} <=> FollowedModifier(words, intensifiers)
          /\ SentencesOf(e, "negations") # {} <=> FollowedModifier(words, negations)
          /\ \A i \in SentencesOf(e, "intensifiers") :
               e[i].words = FirstOccurrences(SubSeq(words, 1, Len(words) - 1), intensifiers)
          /\ \A i \in SentencesOf(e, "negations") :
               e[i].words = FirstOccurrences(SubSeq(words, 1, Len(words) - 1), negations)

\* an explanation with all eight sentences: a negation before an intensifier before the word
C20_Witness ==
  \E t \in Threads :
    /\ pc[t] = "done"
    /\ result[t].value[3] # "VACÍO"
    /\ Len(result[t].value[6]) = 8
    /\ SentencesOf(result[t].value[6], "intensifiers") # {}
    /\ SentencesOf(result[t].value[6], "negations") # {}

\* C21: for every non-short-circuit input, the explanation returned by analyze_text contains
\* the emotion sentence (exactly one), giving the returned emotion label together with the
\* description the table emotion_explanations has for it.
C21_EmotionSentenceGivesLabelAndDescription ==
  \A t \in Threads :
    pc[t] = "done" /\ ~result[t].raised /\ result[t].value[3] # "VACÍO" =>
      LET v == result[t].value
          e == v[6]
          S == SentencesOf(e, "emotion")
      IN  /\ Cardinality(S) = 1
          /\ \A i \in S :
               /\ e[i].label = v[3]
               /\ v[3] \in DOMAIN emotion_explanations
               /\ e[i].words = <<emotion_explanations[v[3]]>>

\* a NEUTRAL text whose marks lift it to Sorpresa, with its emotion sentence
C21_Witness ==
  \E t \in Threads :
    /\ pc[t] = "done"
    /\ result[t].value[3] = "Sorpresa"
    /\ \E i \in SentencesOf(result[t].value[6], "emotion") :
         result[t].value[6][i].words = <<"Reacción emocional ante lo inesperado.">>

\* C22 as stated: a POSITIVO result has a non-empty found-positive list and a positive_count
\* above 0, and its explanation has the positive-words sentence and the positive-score
\* sentence; a NEGATIVO result likewise on the negative side.
C22_PolarResultListsItsWords ==
  \A t \in Threads :
    pc[t] = "done" /\ ~result[t].raised /\ frame[LocalsOf(t)].entered =>
      LET v == result[t].value
          e == v[6]
          f == frame[LocalsOf(t)]
      IN  /\ v[2] = "POSITIVO" =>
               /\ f.found_positive_words # <<>> /\ f.positive_count > 0
               /\ SentencesOf(e, "positive_words") # {} /\ SentencesOf(e, "positive_score") # {}
          /\ v[2] = "NEGATIVO" =>
               /\ f.found_negative_words # <<>> /\ f.negative_count > 0
               /\ SentencesOf(e, "negative_words") # {} /\ SentencesOf(e, "negative_score") # {}

\* C22 amended: a POSITIVO result has positive_count - negative_count >= 1 and a NEGATIVO one
\* <= -1 (counts in quarters), and at least one lexicon word was matched on some side; the
\* explanation of a POSITIVO (NEGATIVO) result has the positive-words (negative-words) sentence
\* exactly when the found-positive (found-negative) list is non-empty, listing that list, and
\* the positive-score (negative-score) sentence exactly when positive_count (negative_count)
\* is above 0, which needs a non-empty list.  A result whose polarity comes from negated
\* words of the other side alone ('no malo no malo' is POSITIVO) has neither sentence.
C22_PolarResultListsTheWordsItFound ==
  \A t \in Threads :
    pc[t] = "done" /\ ~result[t].raised /\ frame[LocalsOf(t)].entered =>
      LET v == result[t].value
          e == v[6]
          f == frame[LocalsOf(t)]
      IN  /\ v[2] = "POSITIVO" =>
               /\ f.positive_count - f.negative_count >= 4
               /\ SentencesOf(e, "positive_words") # {} <=> f.found_positive_words # <<>>
               /\ \A i \in SentencesOf(e, "positive_words") : e[i].words = f.found_positive_words
               /\ SentencesOf(e, "positive_score") # {} <=> f.positive_count > 0
               /\ \A i \in SentencesOf(e, "positive_score") : e[i].num = f.positive_count
          /\ v[2] = "NEGATIVO" =>
               /\ f.positive_count - f.negative_count <= -4
               /\ SentencesOf(e, "negative_words") # {} <=> f.found_negative_words # <<>>
               /\ \A i \in SentencesOf(e, "negative_words") : e[i].words = f.found_negative_words
               /\ SentencesOf(e, "negative_score") # {} <=> f.negative_count > 0
               /\ \A i \in SentencesOf(e, "negative_score") : e[i].num = f.negative_count
          /\ v[2] # "NEUTRAL" => f.found_positive_words # <<>> \/ f.found_negative_words # <<>>
          /\ f.positive_count > 0 => f.found_positive_words # <<>>
          /\ f.negative_count > 0 => f.found_negative_words # <<>>

\* a POSITIVO result that matched no positive word: its explanation has neither the
\* positive-words nor the positive-score sentence
C22_Witness ==
  \E t \in Threads :
    /\ pc[t] = "done"
    /\ frame[LocalsOf(t)].entered
    /\ result[t].value[2] = "POSITIVO"
    /\ frame[LocalsOf(t)].found_positive_words = <<>>
    /\ frame[LocalsOf(t)].found_negative_words # <<>>
    /\ SentencesOf(result[t].value[6], "positive_words") = {}
    /\ SentencesOf(result[t].value[6], "positive_score") = {}

\* the emotions C29 says analyze_text can return
StatedEmotions ==
  {"VACÍO", "Alegría", "Alegría Extrema", "Enojo/Frustración", "Ira Extrema", "Indiferencia",
   "Sorpresa"}

\* C29: every emotion analyze_text returns is one of VACÍO, Alegría, Alegría Extrema,
\* Enojo/Frustración, Ira Extrema, Indiferencia, Sorpresa (never Satisfacción, Descontento or
\* NEUTRALIDAD): the total score is a multiple of 0.5 (two quarters), so a POSITIVO or NEGATIVO
\* result has confidence >= 0.6 and intensity > 0.5, and a scored NEUTRAL result has intensity
\* >= 0.45.
C29_OnlySevenEmotionsAreReturned ==
  \A t \in Threads :
    pc[t] = "done" /\ ~result[t].raised =>
      LET v == result[t].value
          f == frame[LocalsOf(t)]
      IN  /\ v[3] \in StatedEmotions
          /\ v[3] \notin {"Satisfacción", "Descontento", "NEUTRALIDAD"}
          /\ v[3] = "VACÍO" <=> ~f.entered
          /\ f.entered =>
               /\ (f.positive_count - f.negative_count) % 2 = 0
               /\ v[2] \in {"POSITIVO", "NEGATIVO"} => v[5] >= 600 /\ v[4] > 500
               /\ v[2] = "NEUTRAL" => v[4] >= 450

\* the least values: a scored NEUTRAL text of intensity 0.45, and the same text with one
\* lexicon word more, of confidence 0.6
C29_Witness ==
  /\ pc[1] = "done" /\ pc[2] = "done"
  /\ result[1].value[3] = "Indiferencia" /\ result[1].value[4] = 450
  /\ result[2].value[2] \in {"POSITIVO", "NEGATIVO"} /\ result[2].value[5] = 600
  /\ result[2].value[3] \in {"Alegría", "Enojo/Frustración"}

\* C23: get_model, called while no model is loaded, makes at most 3 load attempts: it stops
\* at the first success and returns the loaded model; after a failed attempt that is not the
\* third it waits and retries; after the third failure it raises RuntimeError and the global
\* model stays unset, so a later call starts a fresh series of up to 3 attempts.  Called while
\* a model is loaded, it makes no load attempt and returns that model.  (Calls made one after
\* the other.)
C23_AtMostThreeLoadAttempts ==
  /\ model = None <=> constructed = 0
  /\ constructed <= 1
  /\ \A t \in Threads :
    LET l == loader[t]
    IN  /\ l.attempts <= 3 /\ l.loads <= 1
        /\ l.pc = "load" => l.found = None /\ l.loads = 0 /\ l.attempts < 3 /\ Len(l.waits) = l.attempts
        /\ l.pc = "sleep" => l.found = None /\ l.loads = 0 /\ l.attempts \in {1, 2}
                               /\ Len(l.waits) = l.attempts - 1
        /\ l.pc = "raised" => l.found = None /\ l.loads = 0 /\ l.attempts = 3
        /\ l.pc = "return" /\ l.found = None => l.loads = 1 /\ model = Some(constructed)
        /\ l.pc = "returned" =>
             /\ l.returned # None /\ l.returned = model
             /\ l.found = None => l.loads = 1 /\ l.attempts >= 1 /\ Len(l.waits) = l.attempts - 1
             /\ l.found # None => l.attempts = 0 /\ l.returned = l.found /\ l.waits = <<>>

\* after a call that raised RuntimeError, a later call that made its own three attempts and
\* returned the model its third attempt loaded
C23_Witness ==
  /\ loader[2].pc = "raised"
  /\ loader[1].calls = 2 /\ loader[1].pc = "returned"
  /\ loader[1].found = None /\ loader[1].attempts = 3 /\ loader[1].returned = model

C25_ModelConstructedAtMostOnce ==
  /\ constructed <= 1
  /\ \A t \in Threads : loader[t].pc = "returned" => loader[t].returned = Some(1)

\* C26: the first broadcast of a POST /analyze request (line 585) calls send_json on every
\* connection that was in active_connections when it started, and no connection whose send
\* failed is in active_connections when it returns.
C26_BroadcastReachesAllAndDropsBroken ==
  (response.op = "analyze" /\ response.status # 400) =>
    /\ response.sent = Range(response.connections)
    /\ Range(response.after) \cap response.failing = {}

\* C30: a call of manager.disconnect for a dashboard WebSocket whose peer went away completes
\* without raising, also after a broadcast has removed the connection as broken.
C30_DisconnectNeverRaises ==
  response.op = "disconnect" => ~response.raised
====
